---------------------------- MODULE Spec2Model ----------------------------
(***************************************************************************)
(* School-zone warning prediction pipeline: the Road Point Sampler        *)
(* (densify_geometry, gather_road_points), the Street Imagery Fetcher,   *)
(* the Signage Classifier and the School Locator notebooks, modelled cell *)
(* by cell, with the files they read and write.                           *)
(*                                                                         *)
(* Coordinates are integers in units of 0.0001 degree, so the sampler's   *)
(* step of 0.0002 is Step == 2.  Road geometries are rectilinear          *)
(* polylines (every segment parallel to an axis), for which the Euclidean *)
(* length shapely reports is the sum of the |dx| + |dy| of the segments   *)
(* and every interpolated point has integer coordinates.                  *)
(***************************************************************************)
EXTENDS Integers, Sequences, FiniteSets, TLC

VARIABLES
    \* densify_geometry called on its own
    line,            \* argument line_geometry: a sequence of <<x, y>> vertices
    step_arg,        \* argument step
    xy,              \* the returned list of <<x, y>> tuples
    bearings,        \* the bearings the loop of gather_road_points appends for xy
    d_pc,            \* "call" | "returned" | "bearings"
    \* Road Point Sampler notebook
    gdf,             \* the road table read from <name>_school_roads.parquet
    points_df,       \* the data frame gather_road_points returns (sequence of rows)
    points_parquet,  \* <name>_school_road_points.parquet: [exists, rows]
    s_pc,            \* "gather" | "export" | "done" | "failed"
    \* Street Imagery Fetcher and Signage Classifier notebooks, run in sequence
    pc,              \* the cell to execute next, or "sv_done" | "done" | "failed"
    error,           \* the exception that stopped the run, "" if none
    sv_df,           \* the fetcher's data frame
    lookups,         \* metadata requests issued in this run, in order
    downloads,       \* image requests issued in this run, in order
    image_dir,       \* whether data/<name>_schoolroads_street_images exists
    image_files,     \* the image files on disk: path -> content
    streetview_parquet,   \* <name>_school_road_points_streetview.parquet
    pr_df,           \* the classifier's data frame
    classified,      \* images given to classifyImage in this run, in order
    predictions_parquet,  \* <name>_school_road_points_streetview_predictions.parquet
    \* the files the notebooks read and write
    cwd,             \* os.getcwd() of the notebook being run
    name,            \* parameter name of the notebook being run
    disk,            \* the file system: path -> content
    io,              \* the file operations done so far: [nb, op, path, cwd, name]
    a_pc,            \* the cell to execute next, or "idle"
    runs,            \* the number of notebook runs started
    a_df,            \* the image references of the running notebook's data frame
    \* School Locator notebook
    sc_input,        \* the parameters, the remote archive and the table in it
    sc_files,        \* the files below <cwd>/data, and the directory itself
    sc_df,           \* the column names of the data frame
    sc_pc,           \* the cell to execute next, or "idle" | "done" | "failed"
    sc_run,          \* the run: its number, what it found, what it requested
    schools_parquet, \* <name>_schools.parquet: [exists, columns]
    \* Signage Classifier notebook, the cells that load the model
    models_dir,      \* data/schools/resnet/models: entry name -> [mtime, isdir]
    latest_file,     \* the entry chosen, <<>> if none
    loaded,          \* the model file loaded, <<>> if none
    ld_pc            \* "latest" | "load" | "done" | "failed"

densify_vars == <<line, step_arg, xy, bearings, d_pc>>
sampler_vars == <<gdf, points_df, s_pc>>
fetcher_vars == <<sv_df, lookups, downloads, image_dir, image_files, streetview_parquet>>
classifier_vars == <<pr_df, classified, predictions_parquet>>
pipeline_vars == <<pc, error, fetcher_vars, classifier_vars>>
artifact_vars == <<cwd, name, disk, io, a_pc, runs, a_df>>
locator_vars == <<sc_input, sc_files, sc_df, sc_pc, sc_run, schools_parquet>>
loader_vars == <<models_dir, latest_file, loaded, ld_pc>>
vars == <<densify_vars, sampler_vars, points_parquet, pipeline_vars, artifact_vars,
          locator_vars, loader_vars>>

---------------------------------------------------------------------------
(* Bounds of the model *)

MaxSegLen == 3      \* longest segment of a geometry given to densify_geometry
MaxStep == 3        \* largest step given to densify_geometry on its own
MaxRoadLen == 5     \* longest first leg of a road of the sampler's road table
MaxRoads == 2       \* most rows of the sampler's road table
MaxPoint == 1       \* the fetcher's input rows are sample points 0..MaxPoint
MaxSmallRows == 2   \* most rows of a short input table of the fetcher
MaxOver == 1        \* the long input tables have up to SubsetLimit + MaxOver rows
MaxLocatorRuns == 3 \* most runs of the School Locator followed on one data directory
MaxMtime == 3       \* modification times of the entries of the models directory: 1..MaxMtime
MaxRuns == 4        \* most notebook runs followed on the file system

(* Program constants *)

Step == 2           \* step= 0.0002 in gather_road_points, in units of 0.0001
SubsetLimit == 100  \* df = df[:100].copy() in the fetcher

---------------------------------------------------------------------------
(* Arithmetic helpers *)

Abs(n) == IF n < 0 THEN -n ELSE n

Sign(n) == IF n < 0 THEN -1 ELSE IF n > 0 THEN 1 ELSE 0

CeilDiv(a, b) == IF a <= 0 THEN 0 ELSE ((a - 1) \div b) + 1

FloorDiv(a, b) == a \div b

RECURSIVE SumTo(_, _)
SumTo(f, n) == IF n = 0 THEN 0 ELSE f[n] + SumTo(f, n - 1)

---------------------------------------------------------------------------
(* shapely: LineString.length and LineString.interpolate *)

SegLen(p, q) == Abs(q[1] - p[1]) + Abs(q[2] - p[2])

LineLength(g) ==
    IF Len(g) < 2 THEN 0
    ELSE SumTo([i \in 1..(Len(g) - 1) |-> SegLen(g[i], g[i + 1])], Len(g) - 1)

\* the point at distance d (0 <= d) along g, walking the segments from vertex i;
\* a distance beyond the end gives the last vertex
RECURSIVE InterpolateFrom(_, _, _)
InterpolateFrom(g, i, d) ==
    IF i >= Len(g) THEN g[Len(g)]
    ELSE LET p == g[i]
             q == g[i + 1]
             l == SegLen(p, q)
         IN  IF d < l \/ (d = l /\ i + 1 = Len(g))
             THEN <<p[1] + d * Sign(q[1] - p[1]), p[2] + d * Sign(q[2] - p[2])>>
             ELSE InterpolateFrom(g, i + 1, d - l)

Interpolate(g, d) == InterpolateFrom(g, 1, d)

---------------------------------------------------------------------------
(* numpy: np.arange(0, stop, step): ceil(stop / step) values 0, step, ... *)

ARangeInclusive(stop, step) == [i \in 1..(FloorDiv(stop, step) + 1) |-> (i - 1) * step]

ARangeDoubled(stop, step) == [i \in 1..CeilDiv(stop, 2 * step) |-> (i - 1) * 2 * step]

ARange(stop, step) == [i \in 1..CeilDiv(stop, step) |-> (i - 1) * step]

---------------------------------------------------------------------------
(* densify_geometry(line_geometry, step), crs=None *)

DensifyFloorCount(line_geometry, step) ==
    LET length_m == LineLength(line_geometry)
    IN  [i \in 1..FloorDiv(length_m, step) |-> Interpolate(line_geometry, (i - 1) * step)]

densify_geometry(line_geometry, step) ==
    LET length_m == LineLength(line_geometry)
        dists == ARange(length_m, step)
    IN  [i \in 1..Len(dists) |-> Interpolate(line_geometry, dists[i])]

---------------------------------------------------------------------------
(* osmnx: ox.bearing.get_bearing(origin_point, destination_point).         *)
(* Both arguments are read as (lat, lng) tuples; the result is the forward *)
(* azimuth atan2(d_lng, d_lat) in degrees, normalised by (b + 360) % 360.  *)
(* Over the short distances between sample points the azimuth is the       *)
(* planar one; it is given here in whole degrees.                          *)

\* atan(num / den) in whole degrees for 0 <= num <= den, den > 0
ATanDeg(num, den) == (45 * num * den + 16 * num * (den - num)) \div (den * den)

\* atan2(y, x) in whole degrees, in -180..180 as math.atan2 gives it
ATan2Deg(y, x) ==
    LET ay == Abs(y)
        ax == Abs(x)
        a  == IF ax = 0 /\ ay = 0 THEN 0
              ELSE IF ay <= ax THEN ATanDeg(ay, ax)
              ELSE 90 - ATanDeg(ax, ay)
        h  == IF x >= 0 THEN a ELSE 180 - a
    IN  IF y >= 0 THEN h ELSE -h

InitialBearing(origin_point, destination_point) ==
    ATan2Deg(destination_point[2] - origin_point[2],
             destination_point[1] - origin_point[1])

get_bearing(origin_point, destination_point) ==
    LET d_lat == destination_point[1] - origin_point[1]
        d_lng == destination_point[2] - origin_point[2]
        initial_bearing == ATan2Deg(d_lng, d_lat)
    IN  (initial_bearing + 360) % 360

---------------------------------------------------------------------------
(* gather_road_points(gdf) *)

NoName == "NaN"     \* a road without a name tag

\* rows iterated: ~(gdf["geometry"].isna()) & ~(gdf["highway"] == "service")
RoadFilterKeepService(t) == SelectSeq(t, LAMBDA r : ~r.geometry.isna)

RoadFilter(t) ==
    SelectSeq(t, LAMBDA r : ~r.geometry.isna /\ ~(r.highway = "service"))

\* if len(densified_points) > 1
KeepRoadNonEmpty(densified_points) == Len(densified_points) > 0

KeepRoad(densified_points) == Len(densified_points) > 1

\* the bearing appended for index x of densified_points (x counted from 1 here)
BearingAtForward(densified_points, x) ==
    IF x = 1
    THEN get_bearing(densified_points[x], densified_points[x + 1])
    ELSE get_bearing(densified_points[x], densified_points[x - 1])

BearingAt(densified_points, x) ==
    IF x = 1
    THEN get_bearing(densified_points[x + 1], densified_points[x])
    ELSE get_bearing(densified_points[x], densified_points[x - 1])

EmptyLists ==
    [lats |-> <<>>, lons |-> <<>>, road_names |-> <<>>, road_lengths |-> <<>>,
     bearings |-> <<>>, raised |-> FALSE]

\* one iteration of the loop over the filtered rows; densified_points[x+1] at
\* x == 0 raises IndexError when the list has a single point
RoadIteration(acc, rrow) ==
    LET densified_points == densify_geometry(rrow.geometry.coords, Step)
        n == Len(densified_points)
    IN  IF acc.raised \/ ~KeepRoad(densified_points) THEN acc
        ELSE IF n < 2 THEN
            [acc EXCEPT !.lats = @ \o [i \in 1..n |-> densified_points[i][2]],
                        !.lons = @ \o [i \in 1..n |-> densified_points[i][1]],
                        !.road_names = @ \o [i \in 1..n |-> rrow.name],
                        !.road_lengths = @ \o [i \in 1..n |-> rrow.length],
                        !.raised = TRUE]
        ELSE
            [acc EXCEPT !.lats = @ \o [i \in 1..n |-> densified_points[i][2]],
                        !.lons = @ \o [i \in 1..n |-> densified_points[i][1]],
                        !.road_names = @ \o [i \in 1..n |-> rrow.name],
                        !.road_lengths = @ \o [i \in 1..n |-> rrow.length],
                        !.bearings = @ \o [x \in 1..n |-> BearingAt(densified_points, x)]]

\* the loop over the filtered rows, in the order of iterrows()
RECURSIVE GatherLoopReversed(_, _)
GatherLoopReversed(rows, acc) ==
    IF rows = <<>> THEN acc
    ELSE RoadIteration(GatherLoopReversed(Tail(rows), acc), Head(rows))

RECURSIVE GatherLoop(_, _)
GatherLoop(rows, acc) ==
    IF rows = <<>> THEN acc
    ELSE GatherLoop(Tail(rows), RoadIteration(acc, Head(rows)))

\* pd.DataFrame.from_dict of the five lists, as a sequence of rows
DataFrameFromLists(l) ==
    [i \in 1..Len(l.lats) |->
        [road_name |-> l.road_names[i], lon |-> l.lons[i], lat |-> l.lats[i],
         road_length |-> l.road_lengths[i], bearing |-> l.bearings[i]]]

gather_road_points(t) ==
    LET l == GatherLoop(RoadFilter(t), EmptyLists)
    IN  [raised |-> l.raised,
         df |-> IF l.raised THEN <<>> ELSE DataFrameFromLists(l)]

---------------------------------------------------------------------------
(* Inputs *)

Moves ==
    {<<dx, 0>> : dx \in (-MaxSegLen)..MaxSegLen} \cup
    {<<0, dy>> : dy \in (-MaxSegLen)..MaxSegLen}

\* polylines of one or two segments from the origin
Geometries ==
    {<<<<0, 0>>, m>> : m \in Moves} \cup
    {<<<<0, 0>>, m, <<m[1] + k[1], m[2] + k[2]>>>> : m \in Moves, k \in Moves}

\* a road running east (west when a < 0) for |a|, then north for b
RoadLine(a, b) ==
    IF b = 0 THEN <<<<0, 0>>, <<a, 0>>>> ELSE <<<<0, 0>>, <<a, 0>>, <<a, b>>>>

RoadGeometries == {RoadLine(a, b) : a \in (-MaxRoadLen)..MaxRoadLen, b \in {0, Step}}

Highways == {"residential", "service"}

\* the "name" column: one name per row of the table, which tells the rows of
\* the output apart by the road they come from
RoadNames == <<"1st St", "2nd St", "3rd St", "4th St">>

\* the "length" column of the road table: metres, about 11 per 0.0001 degree
RoadRow(isna, coords, highway) ==
    [geometry |-> [isna |-> isna, coords |-> coords], highway |-> highway,
     name |-> NoName, length |-> 11 * LineLength(coords)]

RoadRows ==
    {RoadRow(FALSE, g, h) : g \in RoadGeometries, h \in Highways} \cup
    {RoadRow(TRUE, <<>>, h) : h \in Highways}

Named(t) == [k \in DOMAIN t |-> [t[k] EXCEPT !.name = RoadNames[k]]]

RoadTables == {Named(t) : t \in UNION {[1..n -> RoadRows] : n \in 0..MaxRoads}}

NoParquet == [exists |-> FALSE, rows |-> <<>>]

\* no notebook of the imagery and classification stages has run
RunName == "usa"    \* parameter name, as the parameters cell sets it

\* working directories a notebook can be run in
Cwds == <<"/repo", "/repo/pipeline">>

\* "{}/data/{}".format(os.getcwd(), file)
DataPath(c, file) == <<c, "data", file>>

\* no notebook is being run on the file system
ArtifactIdle ==
    /\ cwd = Cwds[1]
    /\ name = RunName
    /\ disk = <<>>
    /\ io = {}
    /\ a_pc = "idle"
    /\ runs = 0
    /\ a_df = {}

\* the School Locator and the model loading cells have not run
LocatorIdle ==
    /\ sc_input = <<>>
    /\ sc_files = {}
    /\ sc_df = <<>>
    /\ sc_pc = "idle"
    /\ sc_run = <<>>
    /\ schools_parquet = NoParquet

LoaderIdle ==
    /\ models_dir = <<>>
    /\ latest_file = <<>>
    /\ loaded = <<>>
    /\ ld_pc = "idle"

PipelineIdle ==
    /\ ArtifactIdle
    /\ LocatorIdle
    /\ LoaderIdle
    /\ pc = "done"
    /\ error = ""
    /\ sv_df = <<>>
    /\ lookups = <<>>
    /\ downloads = <<>>
    /\ image_dir = FALSE
    /\ image_files = <<>>
    /\ streetview_parquet = NoParquet
    /\ pr_df = <<>>
    /\ classified = <<>>
    /\ predictions_parquet = NoParquet

---------------------------------------------------------------------------
(* densify_geometry on its own *)

\* a straight path of length 200 along an axis, to be sampled with step 20
ExampleLines == {<<<<0, 0>>, <<200 * d[1], 200 * d[2]>>>> :
                    d \in {<<1, 0>>, <<-1, 0>>, <<0, 1>>, <<0, -1>>}}

DensifyInit ==
    /\ \/ line \in Geometries /\ step_arg \in 1..MaxStep
       \/ line \in ExampleLines /\ step_arg = 20
    /\ xy = <<>>
    /\ bearings = <<>>
    /\ d_pc = "call"
    /\ gdf = <<>>
    /\ points_df = <<>>
    /\ points_parquet = NoParquet
    /\ s_pc = "done"
    /\ PipelineIdle

Densify ==
    /\ d_pc = "call"
    /\ xy' = densify_geometry(line, step_arg)
    /\ d_pc' = "returned"
    /\ UNCHANGED <<line, step_arg, bearings>>
    /\ UNCHANGED <<sampler_vars, points_parquet, pipeline_vars, artifact_vars, locator_vars, loader_vars>>

\* the loop for x in range(0, len(densified_points)) of gather_road_points on
\* the returned list, entered if len(densified_points) > 1
BearingLoop ==
    /\ d_pc = "returned"
    /\ KeepRoad(xy)
    /\ bearings' = [x \in 1..Len(xy) |-> BearingAt(xy, x)]
    /\ d_pc' = "bearings"
    /\ UNCHANGED <<line, step_arg, xy>>
    /\ UNCHANGED <<sampler_vars, points_parquet, pipeline_vars, artifact_vars, locator_vars, loader_vars>>

DensifyNext == Densify \/ BearingLoop

DensifySpec == DensifyInit /\ [][DensifyNext]_vars

---------------------------------------------------------------------------
(* Road Point Sampler notebook *)

SamplerInit ==
    /\ gdf \in RoadTables
    /\ points_df = <<>>
    /\ points_parquet = NoParquet
    /\ s_pc = "gather"
    /\ line = <<>>
    /\ step_arg = Step
    /\ xy = <<>>
    /\ bearings = <<>>
    /\ d_pc = "returned"
    /\ PipelineIdle

\* cell: df = gather_road_points(gdf=gdf)
GatherCell ==
    /\ s_pc = "gather"
    /\ LET r == gather_road_points(gdf)
       IN  /\ points_df' = r.df
           /\ s_pc' = IF r.raised THEN "failed" ELSE "export"
    /\ UNCHANGED <<gdf, points_parquet>>
    /\ UNCHANGED <<densify_vars, pipeline_vars, artifact_vars, locator_vars, loader_vars>>

\* cell: df.to_parquet(<name>_school_road_points.parquet, index=False)
ExportPointsCell ==
    /\ s_pc = "export"
    /\ points_parquet' = [exists |-> TRUE, rows |-> points_df]
    /\ s_pc' = "done"
    /\ UNCHANGED <<gdf, points_df>>
    /\ UNCHANGED <<densify_vars, pipeline_vars, artifact_vars, locator_vars, loader_vars>>

SamplerNext == GatherCell \/ ExportPointsCell

SamplerSpec == SamplerInit /\ [][SamplerNext]_vars

---------------------------------------------------------------------------
(* Street Imagery Fetcher notebook *)

\* what the imagery provider does with one metadata request: status OK, a
\* status other than OK, or an exception raised inside the client call
Outcomes == {"OK", "ZERO_RESULTS", "EXC"}

\* what requests.get(url).content can be: an image, or the body of an error
Bodies == {"jpeg", "error"}

\* what requests.get(url) does: it returns a body, or raises (no connection)
Responses == Bodies \cup {"EXC"}

\* the decimal digits of n >= 0, most significant first
RECURSIVE Digits(_)
Digits(n) == IF n < 10 THEN <<n>> ELSE Append(Digits(n \div 10), n % 10)

\* "{}".format(x) and str(x) of a float: its shortest decimal representation
\* that reads back as x, given as the sign and the digits of the number of units
FormatFloat(x) == <<IF x < 0 THEN "-" ELSE "", Digits(Abs(x))>>

\* params[0] of a request, without the size and the key: location is
\* "{lat},{lon}".format(lat=lat, lon=lon), heading is str(bearing)
Params(lat, lon, bearing) ==
    [location |-> <<FormatFloat(lat), FormatFloat(lon)>>,
     heading |-> FormatFloat(bearing)]

\* values of the google_streetview_meta column
MetaResults(lat, lon, bearing, status) ==
    [kind |-> "results", status |-> status,
     location |-> Params(lat, lon, bearing).location,
     heading |-> Params(lat, lon, bearing).heading]

MetaNone == [kind |-> "None", status |-> "", location |-> <<>>, heading |-> <<>>]

MetaNA == [kind |-> "NA", status |-> "", location |-> <<>>, heading |-> <<>>]

NoImage == <<>>     \* None in the google_streetview_image column

\* pd.read_parquet of a file written with index=False: a RangeIndex from 0
ReadParquetNoIndex(rows) ==
    [k \in 1..Len(rows) |-> [index |-> k - 1] @@ rows[k]]

Min(a, b) == IF a <= b THEN a ELSE b

\* df = df[:100].copy()
SubsetAll(df) == df

Subset(df) == SubSeq(df, 1, Min(Len(df), SubsetLimit))

\* params of the request made for a row
Request(row) == Params(row.lat, row.lon, row.bearing)

\* gather_google_streetview_meta(lat, lon, bearing, creds), given what the
\* provider does with the request
gather_google_streetview_meta(lat, lon, bearing, outcome) ==
    IF outcome = "EXC" THEN MetaNA
    ELSE IF outcome = "OK" THEN MetaResults(lat, lon, bearing, "OK")
    ELSE MetaNone

\* data_dir = "{}/data/{}_schoolroads_street_images".format(os.getcwd(), name)
DataDirOfName(c, n) == DataPath(Cwds[1], <<n, "_schoolroads_street_images">>)

DataDir(c, n) == DataPath(c, <<n, "_schoolroads_street_images">>)

\* filename = "{}_{}.jpg".format(location.replace(",", "_"), heading)
Filename(meta) ==
    <<meta.location[1], "_", meta.location[2], "_", meta.heading, ".jpg">>

\* the last digit of a formatted number dropped
DropLastDigit(f) == <<f[1], SubSeq(f[2], 1, Len(f[2]) - 1)>>

\* filepath = "{}/{}".format(data_dir, filename)
FilePathRounded(data_dir, meta) ==
    <<data_dir, <<DropLastDigit(meta.location[1]), "_",
                  DropLastDigit(meta.location[2]), "_", meta.heading, ".jpg">>>>

FilePath(data_dir, meta) == <<data_dir, Filename(meta)>>

\* download_google_streetview_image(google_streetview_api_results, data_dir)
\* on the files `files`; `response` is what a request for the image would do.
\* Gives the value returned, the files afterwards, the requests issued and
\* whether the call raised.
DownloadAlways(meta, data_dir, files, response) ==
    IF meta.status # "OK"
    THEN [image |-> NoImage, files |-> files, requests |-> <<>>, raised |-> FALSE]
    ELSE LET filepath == FilePath(data_dir, meta)
         IN  IF response = "EXC"
             THEN [image |-> NoImage, files |-> files,
                   requests |-> <<filepath>>, raised |-> TRUE]
             ELSE [image |-> filepath,
                   files |-> (filepath :> response) @@ files,
                   requests |-> <<filepath>>, raised |-> FALSE]

DownloadIfOk(meta, data_dir, files, response) ==
    IF meta.status # "OK"
    THEN [image |-> NoImage, files |-> files, requests |-> <<>>, raised |-> FALSE]
    ELSE LET filepath == FilePath(data_dir, meta)
         IN  IF filepath \notin DOMAIN files
             THEN IF response = "EXC"
                  THEN [image |-> NoImage, files |-> files,
                        requests |-> <<filepath>>, raised |-> TRUE]
                  ELSE IF response = "error"
                  THEN [image |-> NoImage, files |-> files,
                        requests |-> <<filepath>>, raised |-> FALSE]
                  ELSE [image |-> filepath,
                        files |-> (filepath :> response) @@ files,
                        requests |-> <<filepath>>, raised |-> FALSE]
             ELSE [image |-> filepath, files |-> files, requests |-> <<>>,
                   raised |-> FALSE]

download_google_streetview_image(meta, data_dir, files, response) ==
    IF meta.status # "OK"
    THEN [image |-> NoImage, files |-> files, requests |-> <<>>, raised |-> FALSE]
    ELSE LET filepath == FilePath(data_dir, meta)
         IN  IF filepath \notin DOMAIN files
             THEN IF response = "EXC"
                  THEN [image |-> NoImage, files |-> files,
                        requests |-> <<filepath>>, raised |-> TRUE]
                  ELSE [image |-> filepath,
                        files |-> (filepath :> response) @@ files,
                        requests |-> <<filepath>>, raised |-> FALSE]
             ELSE [image |-> filepath, files |-> files, requests |-> <<>>,
                   raised |-> FALSE]

\* the lambda of the download cell on row k:
\*   download_google_streetview_image(meta, data_dir) if meta != None else None
\* A meta of pd.NA is not None; with it the row raises (bool(pd.NA) is a
\* TypeError, and pd.NA has no attribute metadata), which ends the apply, as
\* does an exception of requests.get.
DownloadRowUnguarded(df, k, acc, response) ==
    LET meta == df[k].meta
        path == FilePath(DataDir(cwd, name),
                         MetaResults(df[k].lat, df[k].lon, df[k].bearing, "OK"))
    IN  IF acc.raised THEN acc
        ELSE IF meta.kind = "NA"
        THEN [acc EXCEPT !.raised = TRUE, !.error = "NA"]
        ELSE IF meta.kind = "None"
        THEN [acc EXCEPT !.images = Append(@, path),
                         !.files = (path :> "jpeg") @@ @,
                         !.requests = Append(@, path)]
        ELSE LET r == download_google_streetview_image(
                          meta, DataDir(cwd, name), acc.files, response[path])
             IN  IF r.raised
                 THEN [acc EXCEPT !.requests = @ \o r.requests,
                                  !.raised = TRUE, !.error = "ConnectionError"]
                 ELSE [acc EXCEPT !.images = Append(@, r.image),
                                  !.files = r.files,
                                  !.requests = @ \o r.requests]

DownloadRow(df, k, acc, response) ==
    LET meta == df[k].meta
    IN  IF acc.raised THEN acc
        ELSE IF meta.kind = "NA"
        THEN [acc EXCEPT !.raised = TRUE, !.error = "NA"]
        ELSE IF meta.kind = "None" THEN [acc EXCEPT !.images = Append(@, NoImage)]
        ELSE LET r == download_google_streetview_image(
                          meta, DataDir(cwd, name), acc.files,
                          response[FilePath(DataDir(cwd, name), meta)])
             IN  IF r.raised
                 THEN [acc EXCEPT !.requests = @ \o r.requests,
                                  !.raised = TRUE, !.error = "ConnectionError"]
                 ELSE [acc EXCEPT !.images = Append(@, r.image),
                                  !.files = r.files,
                                  !.requests = @ \o r.requests]

\* df.apply(..., axis=1) over rows lo..hi in row order (the range is halved
\* rather than walked, which keeps the evaluation shallow)
RECURSIVE DownloadRows(_, _, _, _, _)
DownloadRows(df, lo, hi, acc, response) ==
    IF lo > hi THEN acc
    ELSE IF lo = hi THEN DownloadRow(df, lo, acc, response)
    ELSE LET mid == (lo + hi) \div 2
             left == DownloadRows(df, lo, mid, acc, response)
         IN  IF left.raised THEN left
             ELSE DownloadRows(df, mid + 1, hi, left, response)

\* df.drop(columns="google_streetview_meta")
DropMetaReversed(df) ==
    [k \in 1..Len(df) |->
        [f \in (DOMAIN df[Len(df) + 1 - k]) \ {"meta"} |-> df[Len(df) + 1 - k][f]]]

DropMeta(df) ==
    [k \in 1..Len(df) |->
        [f \in (DOMAIN df[k]) \ {"meta"} |-> df[k][f]]]

\* cell: df = pd.read_parquet(<name>_school_road_points.parquet)
SvRead ==
    /\ pc = "sv_read"
    /\ points_parquet.exists
    /\ sv_df' = ReadParquetNoIndex(points_parquet.rows)
    /\ pc' = "sv_subset"
    /\ UNCHANGED <<error, lookups, downloads, image_dir, image_files,
                   streetview_parquet, classifier_vars>>
    /\ UNCHANGED <<densify_vars, sampler_vars, points_parquet, artifact_vars, locator_vars, loader_vars>>

\* cell: df = df[:100].copy()
SvSubset ==
    /\ pc = "sv_subset"
    /\ sv_df' = Subset(sv_df)
    /\ pc' = "sv_lookup"
    /\ UNCHANGED <<error, lookups, downloads, image_dir, image_files,
                   streetview_parquet, classifier_vars>>
    /\ UNCHANGED <<densify_vars, sampler_vars, points_parquet, artifact_vars, locator_vars, loader_vars>>

\* cell: df["google_streetview_meta"] = df.apply(gather_google_streetview_meta ...)
SvLookupInterleaved ==
    /\ pc = "sv_lookup"
    /\ \E outcome \in [{Request(sv_df[k]) : k \in DOMAIN sv_df} -> Outcomes] :
        LET metas == [k \in DOMAIN sv_df |->
                        gather_google_streetview_meta(
                            sv_df[k].lat, sv_df[k].lon, sv_df[k].bearing,
                            outcome[Request(sv_df[k])])]
            found == SelectSeq(metas, LAMBDA meta : meta.kind = "results")
        IN  /\ sv_df' = [k \in DOMAIN sv_df |-> [meta |-> metas[k]] @@ sv_df[k]]
            /\ lookups' = [k \in DOMAIN sv_df |-> Request(sv_df[k])]
            /\ downloads' = [i \in DOMAIN found |->
                                FilePath(DataDir(cwd, name), found[i])]
    /\ pc' = "sv_mkdir"
    /\ UNCHANGED <<error, image_dir, image_files,
                   streetview_parquet, classifier_vars>>
    /\ UNCHANGED <<densify_vars, sampler_vars, points_parquet, artifact_vars, locator_vars, loader_vars>>

SvLookup ==
    /\ pc = "sv_lookup"
    /\ \E outcome \in [{Request(sv_df[k]) : k \in DOMAIN sv_df} -> Outcomes] :
        /\ sv_df' = [k \in DOMAIN sv_df |->
                        [meta |-> gather_google_streetview_meta(
                                      sv_df[k].lat, sv_df[k].lon, sv_df[k].bearing,
                                      outcome[Request(sv_df[k])])] @@ sv_df[k]]
        /\ lookups' = [k \in DOMAIN sv_df |-> Request(sv_df[k])]
    /\ pc' = "sv_mkdir"
    /\ UNCHANGED <<error, downloads, image_dir, image_files,
                   streetview_parquet, classifier_vars>>
    /\ UNCHANGED <<densify_vars, sampler_vars, points_parquet, artifact_vars, locator_vars, loader_vars>>

\* cell: if not os.path.isdir(data_dir): os.mkdir(data_dir)
SvMkdir ==
    /\ pc = "sv_mkdir"
    /\ image_dir' = TRUE
    /\ pc' = "sv_download"
    /\ UNCHANGED <<error, sv_df, lookups, downloads, image_files,
                   streetview_parquet, classifier_vars>>
    /\ UNCHANGED <<densify_vars, sampler_vars, points_parquet, artifact_vars, locator_vars, loader_vars>>

\* cell: df["google_streetview_image"] = df.apply(download_google_streetview_image ...)
SvDownload ==
    /\ pc = "sv_download"
    /\ \E response \in [{FilePath(DataDir(cwd, name), sv_df[k].meta) :
                        k \in {j \in DOMAIN sv_df : sv_df[j].meta.kind = "results"}}
                    -> Responses] :
        LET r == DownloadRows(sv_df, 1, Len(sv_df),
                     [images |-> <<>>, files |-> image_files, requests |-> <<>>,
                      raised |-> FALSE, error |-> ""], response)
        IN  /\ image_files' = r.files
            /\ downloads' = r.requests
            /\ IF r.raised
               THEN /\ pc' = "failed"
                    /\ error' \in IF r.error = "NA"
                                  THEN {"TypeError", "AttributeError"}
                                  ELSE {r.error}
                    /\ sv_df' = sv_df
               ELSE /\ pc' = "sv_export"
                    /\ error' = error
                    /\ sv_df' = [k \in DOMAIN sv_df |->
                                    [image |-> r.images[k]] @@ sv_df[k]]
    /\ UNCHANGED <<lookups, image_dir, streetview_parquet, classifier_vars>>
    /\ UNCHANGED <<densify_vars, sampler_vars, points_parquet, artifact_vars, locator_vars, loader_vars>>

\* cell: df.drop(columns="google_streetview_meta").to_parquet(...)
SvExport ==
    /\ pc = "sv_export"
    /\ streetview_parquet' = [exists |-> TRUE, rows |-> DropMeta(sv_df)]
    /\ pc' = "sv_done"
    /\ UNCHANGED <<error, sv_df, lookups, downloads, image_dir, image_files,
                   classifier_vars>>
    /\ UNCHANGED <<densify_vars, sampler_vars, points_parquet, artifact_vars, locator_vars, loader_vars>>

---------------------------------------------------------------------------
(* Signage Classifier notebook *)

Labels == {"schoolsign", "noschoolsign"}

\* probability[0] reported with a label, in percent
Probability(label) == IF label = "schoolsign" THEN 100 ELSE 75

NaNLabel == "NaN"   \* a missing schoolsign_prediction

NaNProb == -1       \* a missing schoolsign_prediction_prob

\* gather_predictions(row, prediction_model), given the label the model reports
GatherPredictionsResetLength(row, label) ==
    [schoolsign_prediction |-> label,
     schoolsign_prediction_prob |-> Probability(label),
     road_length |-> 0] @@ row

gather_predictions(row, label) ==
    [schoolsign_prediction |-> label,
     schoolsign_prediction_prob |-> Probability(label)] @@ row

\* the lambda of the predict cell on row k:
\*   gather_predictions(x, prediction_model) if image != None else x
\* classifyImage raises ValueError on a file that is not an image
PredictRowEvery(df, k, acc, files, label) ==
    LET x == df[k]
    IN  IF acc.raised THEN acc
        ELSE IF x.image = NoImage
        THEN [acc EXCEPT !.rows = Append(@, x), !.calls = Append(@, x.image)]
        ELSE IF x.image \in DOMAIN files /\ files[x.image] = "jpeg"
        THEN [acc EXCEPT !.rows = Append(@, gather_predictions(x, label[x.image])),
                         !.calls = Append(@, x.image)]
        ELSE [acc EXCEPT !.calls = Append(@, x.image), !.raised = TRUE]

PredictRow(df, k, acc, files, label) ==
    LET x == df[k]
    IN  IF acc.raised THEN acc
        ELSE IF x.image = NoImage THEN [acc EXCEPT !.rows = Append(@, x)]
        ELSE IF x.image \in DOMAIN files /\ files[x.image] = "jpeg"
        THEN [acc EXCEPT !.rows = Append(@, gather_predictions(x, label[x.image])),
                         !.calls = Append(@, x.image)]
        ELSE [acc EXCEPT !.calls = Append(@, x.image), !.raised = TRUE]

\* df.apply(..., axis=1) over rows lo..hi in row order
RECURSIVE PredictRows(_, _, _, _, _, _)
PredictRows(df, lo, hi, acc, files, label) ==
    IF lo > hi THEN acc
    ELSE IF lo = hi THEN PredictRow(df, lo, acc, files, label)
    ELSE LET mid == (lo + hi) \div 2
             left == PredictRows(df, lo, mid, acc, files, label)
         IN  IF left.raised THEN left
             ELSE PredictRows(df, mid + 1, hi, left, files, label)

\* the data frame df.apply(..., axis=1) builds of the returned rows: the union
\* of their columns, NaN where a row lacks one
AlignColumns(rows) ==
    IF \A k \in DOMAIN rows : rows[k].image = NoImage THEN rows
    ELSE [k \in DOMAIN rows |->
            IF rows[k].image = NoImage
            THEN [schoolsign_prediction |-> NaNLabel,
                  schoolsign_prediction_prob |-> NaNProb] @@ rows[k]
            ELSE rows[k]]

HasPredictionColumnsAlways(df) == Len(df) >= 0

HasPredictionColumns(df) == \E k \in DOMAIN df : df[k].image # NoImage

\* df.dropna(): the rows with no missing value in any column
RowHasNaPrediction(r) ==
    \/ r.image = NoImage
    \/ r.schoolsign_prediction = NaNLabel
    \/ r.schoolsign_prediction_prob = NaNProb

RowHasNa(r) ==
    \/ r.road_name = NoName
    \/ r.image = NoImage
    \/ r.schoolsign_prediction = NaNLabel
    \/ r.schoolsign_prediction_prob = NaNProb

KeepAll(df) == df

DropNa(df) == SelectSeq(df, LAMBDA r : ~RowHasNa(r))

\* cell: df = pd.read_parquet(<name>_school_road_points_streetview.parquet)
PrRead ==
    /\ pc = "pr_read"
    /\ streetview_parquet.exists
    /\ pr_df' = streetview_parquet.rows
    /\ pc' = "pr_predict"
    /\ UNCHANGED <<error, fetcher_vars, classified, predictions_parquet>>
    /\ UNCHANGED <<densify_vars, sampler_vars, points_parquet, artifact_vars, locator_vars, loader_vars>>

\* cell: df = df.apply(gather_predictions ...), then
\* df[["schoolsign_prediction", "schoolsign_prediction_prob"]].head()
PrPredict ==
    /\ pc = "pr_predict"
    /\ \E label \in [{pr_df[k].image : k \in DOMAIN pr_df} \ {NoImage} -> Labels] :
        LET r == PredictRows(pr_df, 1, Len(pr_df),
                     [rows |-> <<>>, calls |-> <<>>, raised |-> FALSE],
                     image_files, label)
        IN  /\ classified' = r.calls
            /\ IF r.raised
               THEN /\ pc' = "failed"
                    /\ error' = "ValueError"
                    /\ pr_df' = pr_df
               ELSE /\ pr_df' = AlignColumns(r.rows)
                    /\ IF HasPredictionColumns(pr_df)
                       THEN pc' = "pr_export" /\ error' = error
                       ELSE pc' = "failed" /\ error' = "KeyError"
    /\ UNCHANGED <<fetcher_vars, predictions_parquet>>
    /\ UNCHANGED <<densify_vars, sampler_vars, points_parquet, artifact_vars, locator_vars, loader_vars>>

\* cell: df.dropna().to_parquet(...)
PrExport ==
    /\ pc = "pr_export"
    /\ predictions_parquet' = [exists |-> TRUE, rows |-> DropNa(pr_df)]
    /\ pc' = "done"
    /\ UNCHANGED <<error, fetcher_vars, pr_df, classified>>
    /\ UNCHANGED <<densify_vars, sampler_vars, points_parquet, artifact_vars, locator_vars, loader_vars>>

---------------------------------------------------------------------------
(* The workflow: the notebooks run in sequence, each after the one before *)
(* it has finished; a notebook that raises ends the run; the run can be   *)
(* started again on the same files.                                       *)

RunPredictNotebook ==
    /\ pc = "sv_done"
    /\ pc' = "pr_read"
    /\ UNCHANGED <<error, fetcher_vars, classifier_vars>>
    /\ UNCHANGED <<densify_vars, sampler_vars, points_parquet, artifact_vars, locator_vars, loader_vars>>

Rerun ==
    /\ pc \in {"done", "failed"}
    /\ pc' = "sv_read"
    /\ error' = ""
    /\ sv_df' = <<>>
    /\ lookups' = <<>>
    /\ downloads' = <<>>
    /\ pr_df' = <<>>
    /\ classified' = <<>>
    /\ UNCHANGED <<image_dir, image_files, streetview_parquet, predictions_parquet>>
    /\ UNCHANGED <<densify_vars, sampler_vars, points_parquet, artifact_vars, locator_vars, loader_vars>>

\* the rows the sampler writes for an eastward road, i-th sample point
PointRow(i) ==
    [road_name |-> RoadNames[1], lon |-> Step * i, lat |-> 0,
     road_length |-> 11 * Step * (MaxPoint + 1), bearing |-> 180]

\* a sample point of a road without a name tag
UnnamedRow == [PointRow(0) EXCEPT !.road_name = NoName]

PointRows == {PointRow(i) : i \in 0..MaxPoint} \cup {UnnamedRow}

\* short tables of any rows, and long ones around the subset limit (rows of
\* one sample point, told apart by their index)
PointTables ==
    UNION {[1..n -> PointRows] : n \in 1..MaxSmallRows} \cup
    {[k \in 1..n |-> PointRow(0)] :
        n \in (SubsetLimit - 1)..(SubsetLimit + MaxOver)}

Init ==
    /\ points_parquet \in {[exists |-> TRUE, rows |-> t] : t \in PointTables}
    /\ pc = "sv_read"
    /\ error = ""
    /\ sv_df = <<>>
    /\ lookups = <<>>
    /\ downloads = <<>>
    /\ image_dir = FALSE
    /\ image_files = <<>>
    /\ streetview_parquet = NoParquet
    /\ pr_df = <<>>
    /\ classified = <<>>
    /\ predictions_parquet = NoParquet
    /\ ArtifactIdle
    /\ LocatorIdle
    /\ LoaderIdle
    /\ line = <<>>
    /\ step_arg = Step
    /\ xy = <<>>
    /\ bearings = <<>>
    /\ d_pc = "returned"
    /\ gdf = <<>>
    /\ points_df = <<>>
    /\ s_pc = "done"

Next ==
    \/ SvRead
    \/ SvSubset
    \/ SvLookup
    \/ SvMkdir
    \/ SvDownload
    \/ SvExport
    \/ RunPredictNotebook
    \/ PrRead
    \/ PrPredict
    \/ PrExport
    \/ Rerun

Spec == Init /\ [][Next]_vars

---------------------------------------------------------------------------
(* The files the notebooks read and write.  Each notebook is followed cell  *)
(* by cell through the cells that touch the file system; what the cells     *)
(* compute is left to the specifications above.  A file's content is the    *)
(* set of paths it holds: the members of an archive, the image references   *)
(* of a table.                                                              *)

\* values of the parameter name
Names == <<RunName, "chicago">>

\* os.path.basename(link) and target, as the parameters cell sets them
LinkBasename == <<"", "EDGE_GEOCODE_PUBLICSCH_1819.zip">>

Target == <<"", "EDGE_GEOCODE_PUBLICSCH_1819.xlsx">>

\* "{}/data".format(os.getcwd())
DataRoot(c) == DataPath(c, <<"", "">>)

\* School Locator: the archive written, the file tested, extracted and read,
\* and "{}/data/{}_schools.parquet".format(os.getcwd(), name)
ZipPath(c) == DataPath(c, LinkBasename)

TargetPath(c) == DataPath(c, Target)

SchoolsExportPath(c, n) == DataPath(c, <<n, "_schools.parquet">>)

\* Road Point Sampler: "{}/data/{}_school_roads.parquet" is read,
\* "{}/data/{}_school_road_points.parquet" is written
SamplerInputPath(c, n) == DataPath(c, <<n, "_school_roads.parquet">>)

SamplerExportPath(c, n) == DataPath(c, <<n, "_school_road_points.parquet">>)

\* Street Imagery Fetcher: "{}/data/{}_school_road_points.parquet" is read,
\* "{}/data/{}_school_road_points_streetview.parquet" is written
FetcherInputPathRoads(c, n) == DataPath(c, <<n, "_school_roads.parquet">>)

FetcherInputPath(c, n) == DataPath(c, <<n, "_school_road_points.parquet">>)

FetcherExportPath(c, n) == DataPath(c, <<n, "_school_road_points_streetview.parquet">>)

\* Signage Classifier: "{}/data/{}_school_road_points_streetview.parquet" is
\* read, "{}/data/{}_school_road_points_streetview_predictions.parquet" is
\* written; the model and its classes are read from data/schools/resnet
ClassifierInputPath(c, n) == DataPath(c, <<n, "_school_road_points_streetview.parquet">>)

ClassifierExportInPlace(c, n) ==
    DataPath(c, <<n, "_school_road_points_streetview.parquet">>)

ClassifierExportPath(c, n) ==
    DataPath(c, <<n, "_school_road_points_streetview_predictions.parquet">>)

ModelPath(c) == DataPath(c, <<"schools/resnet/models/", "latest">>)

JsonPath(c) == DataPath(c, <<"schools/resnet/json/", "model_class.json">>)

\* the result of the lookup of the one point of the table the fetcher reads
ImageMetas == {MetaResults(0, 0, 180, "OK")}

\* what the archive behind link can hold: the target, or something else
ArchiveContents(c) == {{TargetPath(c)}, {DataPath(c, <<"", "readme.txt">>)}}

Exists(path) == path \in DOMAIN disk

\* a file created or overwritten
Store(d, path, content) == (path :> content) @@ d

RECURSIVE StoreAll(_, _, _)
StoreAll(d, paths, content) ==
    IF paths = {} THEN d
    ELSE LET p == CHOOSE q \in paths : TRUE
         IN  StoreAll(Store(d, p, content), paths \ {p}, content)

Log(nb, op, paths) ==
    {[nb |-> nb, op |-> op, path |-> p, cwd |-> cwd, name |-> name] : p \in paths}

\* a cell that raises stops the notebook
Fails == a_pc' = "idle" /\ UNCHANGED <<disk, io>>

FirstCell == [schools |-> "sc_mkdir", points |-> "pt_read",
              streetview |-> "im_read", predict |-> "cl_read"]

\* the working directory and the name of a run: the default name in either
\* directory, another name in the first
RunParameters ==
    {<<Cwds[i], Names[1]>> : i \in DOMAIN Cwds} \cup
    {<<Cwds[1], Names[j]>> : j \in DOMAIN Names}

\* a notebook is run, in some working directory and with some name
StartNotebook ==
    /\ a_pc = "idle"
    /\ runs < MaxRuns
    /\ runs' = runs + 1
    /\ \E p \in RunParameters : cwd' = p[1] /\ name' = p[2]
    /\ a_df' = {}
    /\ a_pc' \in {FirstCell[nb] : nb \in DOMAIN FirstCell}
    /\ UNCHANGED <<disk, io>>
    /\ UNCHANGED <<densify_vars, sampler_vars, points_parquet, pipeline_vars, locator_vars, loader_vars>>

\* the road table of the schools comes from outside these notebooks
ProvideRoads ==
    /\ a_pc = "idle"
    /\ \E p \in RunParameters :
        /\ Exists(DataRoot(p[1]))
        /\ ~Exists(SamplerInputPath(p[1], p[2]))
        /\ disk' = Store(disk, SamplerInputPath(p[1], p[2]), {})
        /\ io' = io \cup {[nb |-> "roads", op |-> "write",
                            path |-> SamplerInputPath(p[1], p[2]),
                            cwd |-> p[1], name |-> p[2]]}
    /\ UNCHANGED <<cwd, name, a_pc, runs, a_df>>
    /\ UNCHANGED <<densify_vars, sampler_vars, points_parquet, pipeline_vars, locator_vars, loader_vars>>

\* School Locator, cell: create a data subdir if it doesn't exist
ScMkdir ==
    /\ a_pc = "sc_mkdir"
    /\ IF Exists(DataRoot(cwd))
       THEN UNCHANGED <<disk, io>>
       ELSE /\ disk' = Store(disk, DataRoot(cwd), {})
            /\ io' = io \cup Log("schools", "write", {DataRoot(cwd)})
    /\ a_pc' = "sc_download"
    /\ UNCHANGED <<cwd, name, runs, a_df>>
    /\ UNCHANGED <<densify_vars, sampler_vars, points_parquet, pipeline_vars, locator_vars, loader_vars>>

\* School Locator, cell: download file
ScDownload ==
    /\ a_pc = "sc_download"
    /\ IF Exists(TargetPath(cwd))
       THEN a_pc' = "sc_unzip" /\ UNCHANGED <<disk, io>>
       ELSE \E status \in {200, 404, 0} : \E members \in ArchiveContents(cwd) :
                IF status = 0 THEN Fails
                ELSE IF status = 200
                THEN /\ disk' = Store(disk, ZipPath(cwd), members)
                     /\ io' = io \cup Log("schools", "write", {ZipPath(cwd)})
                     /\ a_pc' = "sc_unzip"
                ELSE a_pc' = "sc_unzip" /\ UNCHANGED <<disk, io>>
    /\ UNCHANGED <<cwd, name, runs, a_df>>
    /\ UNCHANGED <<densify_vars, sampler_vars, points_parquet, pipeline_vars, locator_vars, loader_vars>>

\* School Locator, cell: unzip if necessary (unzip = True)
ScUnzip ==
    /\ a_pc = "sc_unzip"
    /\ IF Exists(TargetPath(cwd))
       THEN a_pc' = "sc_read" /\ UNCHANGED <<disk, io>>
       ELSE IF ~Exists(ZipPath(cwd)) THEN Fails
       ELSE /\ disk' = StoreAll(disk, disk[ZipPath(cwd)], {})
            /\ io' = io \cup Log("schools", "read", {ZipPath(cwd)})
                        \cup Log("schools", "write", disk[ZipPath(cwd)])
            /\ a_pc' = "sc_read"
    /\ UNCHANGED <<cwd, name, runs, a_df>>
    /\ UNCHANGED <<densify_vars, sampler_vars, points_parquet, pipeline_vars, locator_vars, loader_vars>>

\* School Locator, cell: read target file into dataframe
ScRead ==
    /\ a_pc = "sc_read"
    /\ IF ~Exists(TargetPath(cwd)) THEN Fails
       ELSE /\ io' = io \cup Log("schools", "read", {TargetPath(cwd)})
            /\ a_pc' = "sc_export"
            /\ disk' = disk
    /\ UNCHANGED <<cwd, name, runs, a_df>>
    /\ UNCHANGED <<densify_vars, sampler_vars, points_parquet, pipeline_vars, locator_vars, loader_vars>>

\* School Locator, cell: export to parquet
ScExport ==
    /\ a_pc = "sc_export"
    /\ disk' = Store(disk, SchoolsExportPath(cwd, name), {})
    /\ io' = io \cup Log("schools", "write", {SchoolsExportPath(cwd, name)})
    /\ a_pc' = "idle"
    /\ UNCHANGED <<cwd, name, runs, a_df>>
    /\ UNCHANGED <<densify_vars, sampler_vars, points_parquet, pipeline_vars, locator_vars, loader_vars>>

\* Road Point Sampler, cell: gdf = gpd.read_parquet(...)
PtRead ==
    /\ a_pc = "pt_read"
    /\ IF ~Exists(SamplerInputPath(cwd, name)) THEN Fails
       ELSE /\ io' = io \cup Log("points", "read", {SamplerInputPath(cwd, name)})
            /\ a_pc' = "pt_export"
            /\ disk' = disk
    /\ UNCHANGED <<cwd, name, runs, a_df>>
    /\ UNCHANGED <<densify_vars, sampler_vars, points_parquet, pipeline_vars, locator_vars, loader_vars>>

\* Road Point Sampler, cell: df.to_parquet(...)
PtExport ==
    /\ a_pc = "pt_export"
    /\ disk' = Store(disk, SamplerExportPath(cwd, name), {})
    /\ io' = io \cup Log("points", "write", {SamplerExportPath(cwd, name)})
    /\ a_pc' = "idle"
    /\ UNCHANGED <<cwd, name, runs, a_df>>
    /\ UNCHANGED <<densify_vars, sampler_vars, points_parquet, pipeline_vars, locator_vars, loader_vars>>

\* Street Imagery Fetcher, cell: df = pd.read_parquet(...)
ImRead ==
    /\ a_pc = "im_read"
    /\ IF ~Exists(FetcherInputPath(cwd, name)) THEN Fails
       ELSE /\ io' = io \cup Log("streetview", "read", {FetcherInputPath(cwd, name)})
            /\ a_pc' = "im_mkdir"
            /\ disk' = disk
    /\ UNCHANGED <<cwd, name, runs, a_df>>
    /\ UNCHANGED <<densify_vars, sampler_vars, points_parquet, pipeline_vars, locator_vars, loader_vars>>

\* Street Imagery Fetcher, cell: make a data dir for the image downloads
ImMkdir ==
    /\ a_pc = "im_mkdir"
    /\ IF Exists(DataDir(cwd, name))
       THEN UNCHANGED <<disk, io>>
       ELSE /\ disk' = Store(disk, DataDir(cwd, name), {})
            /\ io' = io \cup Log("streetview", "write", {DataDir(cwd, name)})
    /\ a_pc' = "im_download"
    /\ UNCHANGED <<cwd, name, runs, a_df>>
    /\ UNCHANGED <<densify_vars, sampler_vars, points_parquet, pipeline_vars, locator_vars, loader_vars>>

\* Street Imagery Fetcher, cell: the download of the images of the rows with
\* a result, each unless its file exists
ImDownload ==
    /\ a_pc = "im_download"
    /\ \E metas \in SUBSET ImageMetas :
        LET paths == {FilePath(DataDir(cwd, name), meta) : meta \in metas}
            new == {p \in paths : ~Exists(p)}
        IN  /\ disk' = StoreAll(disk, new, {})
            /\ io' = io \cup Log("streetview", "write", new)
            /\ a_df' = paths
    /\ a_pc' = "im_export"
    /\ UNCHANGED <<cwd, name, runs>>
    /\ UNCHANGED <<densify_vars, sampler_vars, points_parquet, pipeline_vars, locator_vars, loader_vars>>

\* Street Imagery Fetcher, cell: df.drop(...).to_parquet(...)
ImExport ==
    /\ a_pc = "im_export"
    /\ disk' = Store(disk, FetcherExportPath(cwd, name), a_df)
    /\ io' = io \cup Log("streetview", "write", {FetcherExportPath(cwd, name)})
    /\ a_pc' = "idle"
    /\ UNCHANGED <<cwd, name, runs, a_df>>
    /\ UNCHANGED <<densify_vars, sampler_vars, points_parquet, pipeline_vars, locator_vars, loader_vars>>

\* Signage Classifier, cell: df = pd.read_parquet(...)
ClRead ==
    /\ a_pc = "cl_read"
    /\ IF ~Exists(ClassifierInputPath(cwd, name))
       THEN Fails /\ a_df' = a_df
       ELSE /\ io' = io \cup Log("predict", "read", {ClassifierInputPath(cwd, name)})
            /\ a_df' = disk[ClassifierInputPath(cwd, name)]
            /\ a_pc' = "cl_model"
            /\ disk' = disk
    /\ UNCHANGED <<cwd, name, runs>>
    /\ UNCHANGED <<densify_vars, sampler_vars, points_parquet, pipeline_vars, locator_vars, loader_vars>>

\* Signage Classifier, cells: latest model file, custom model load
ClModel ==
    /\ a_pc = "cl_model"
    /\ IF ~Exists(ModelPath(cwd)) THEN Fails
       ELSE /\ io' = io \cup Log("predict", "read", {ModelPath(cwd), JsonPath(cwd)})
            /\ a_pc' = "cl_predict"
            /\ disk' = disk
    /\ UNCHANGED <<cwd, name, runs, a_df>>
    /\ UNCHANGED <<densify_vars, sampler_vars, points_parquet, pipeline_vars, locator_vars, loader_vars>>

\* Signage Classifier, cell: classifyImage on the images the table refers to;
\* with no image in the table the prediction columns are missing
ClPredict ==
    /\ a_pc = "cl_predict"
    /\ IF a_df = {} \/ \E p \in a_df : ~Exists(p) THEN Fails
       ELSE /\ io' = io \cup Log("predict", "read", a_df)
            /\ a_pc' = "cl_export"
            /\ disk' = disk
    /\ UNCHANGED <<cwd, name, runs, a_df>>
    /\ UNCHANGED <<densify_vars, sampler_vars, points_parquet, pipeline_vars, locator_vars, loader_vars>>

\* Signage Classifier, cell: df.dropna().to_parquet(...)
ClExport ==
    /\ a_pc = "cl_export"
    /\ disk' = Store(disk, ClassifierExportPath(cwd, name), a_df)
    /\ io' = io \cup Log("predict", "write", {ClassifierExportPath(cwd, name)})
    /\ a_pc' = "idle"
    /\ UNCHANGED <<cwd, name, runs, a_df>>
    /\ UNCHANGED <<densify_vars, sampler_vars, points_parquet, pipeline_vars, locator_vars, loader_vars>>

\* a checkout without a data directory, or with one that holds a trained
\* model in each working directory
NoDisk == <<>>

DataDirectories ==
    [p \in UNION {{DataRoot(Cwds[i]), ModelPath(Cwds[i]), JsonPath(Cwds[i])} :
                      i \in DOMAIN Cwds} |-> {}]

ArtifactInit ==
    /\ cwd = Cwds[1]
    /\ name = RunName
    /\ disk \in {NoDisk, DataDirectories}
    /\ io = {}
    /\ a_pc = "idle"
    /\ runs = 0
    /\ a_df = {}
    /\ LocatorIdle
    /\ LoaderIdle
    /\ points_parquet = NoParquet
    /\ pc = "done"
    /\ error = ""
    /\ sv_df = <<>>
    /\ lookups = <<>>
    /\ downloads = <<>>
    /\ image_dir = FALSE
    /\ image_files = <<>>
    /\ streetview_parquet = NoParquet
    /\ pr_df = <<>>
    /\ classified = <<>>
    /\ predictions_parquet = NoParquet
    /\ line = <<>>
    /\ step_arg = Step
    /\ xy = <<>>
    /\ bearings = <<>>
    /\ d_pc = "returned"
    /\ gdf = <<>>
    /\ points_df = <<>>
    /\ s_pc = "done"

ArtifactNext ==
    \/ StartNotebook
    \/ ProvideRoads
    \/ ScMkdir
    \/ ScDownload
    \/ ScUnzip
    \/ ScRead
    \/ ScExport
    \/ PtRead
    \/ PtExport
    \/ ImRead
    \/ ImMkdir
    \/ ImDownload
    \/ ImExport
    \/ ClRead
    \/ ClModel
    \/ ClPredict
    \/ ClExport

ArtifactSpec == ArtifactInit /\ [][ArtifactNext]_vars

---------------------------------------------------------------------------
(* School Locator notebook: the download, the extraction and the columns.   *)
(* Paths are given relative to <cwd>/data as <<folder, file name>>; the     *)
(* parameters, the archive behind link and the table in the target file     *)
(* are the same in every run on one data directory.                         *)

\* os.path.basename(path)
Basename(path) == <<"", path[2]>>

\* values of the parameter target: the default, and a file in a folder
Targets == {Target, <<"EDGE_GEOCODE/", Target[2]>>}

\* values of the parameters lat_colname and lon_colname
ColNames == {"LAT", "LON", "Y"}

\* the column names of the table in the target file
RawTables ==
    {<<"NCESSCH", "LAT", "LON", "CITY">>, <<"lat", "LAT", "LON", "CITY">>,
     <<"Y", "LON", "CITY">>, <<"LAT", "LON">>}

\* the members of the archive behind link
Archives == {{t} : t \in Targets} \cup {{<<"", "readme.txt">>}}

\* the entry of <cwd>/data itself
DataRootEntry == <<"", "">>

SchoolInputs ==
    [target : Targets, unzip : BOOLEAN, lat_colname : ColNames,
     lon_colname : ColNames, archive : Archives, raw : RawTables]

\* a checkout without a data directory, with an empty one, or with one that
\* holds the target file already
InitialFiles == {{}, {DataRootEntry}} \cup {{DataRootEntry, t} : t \in Targets}

\* {lat_colname: "lat", lon_colname: "lon"}: of two equal keys the later stays
Mapper(lat_colname, lon_colname) == (lon_colname :> "lon") @@ (lat_colname :> "lat")

\* df.rename(columns=mapper): a key that is no column is ignored
RenameLatOnly(columns, mapper) ==
    [i \in DOMAIN columns |->
        IF columns[i] \in DOMAIN mapper /\ mapper[columns[i]] = "lat"
        THEN "lat" ELSE columns[i]]

Rename(columns, mapper) ==
    [i \in DOMAIN columns |->
        IF columns[i] \in DOMAIN mapper THEN mapper[columns[i]] ELSE columns[i]]

HasDuplicates(columns) ==
    \E i, j \in DOMAIN columns : i # j /\ columns[i] = columns[j]

\* "{}/data/{}".format(os.getcwd(), os.path.basename(target)) is a file
TargetTested(files) == Basename(sc_input.target) \in files

LcFails == sc_pc' = "failed"

LocatorInit ==
    /\ sc_input \in SchoolInputs
    /\ sc_files \in InitialFiles
    /\ sc_df = <<>>
    /\ sc_pc = "idle"
    /\ sc_run = [n |-> 0, found |-> FALSE, after_success |-> FALSE,
                 requests |-> 0, extractions |-> 0]
    /\ schools_parquet = [exists |-> FALSE, columns |-> <<>>]
    /\ LoaderIdle
    /\ ArtifactIdle
    /\ points_parquet = NoParquet
    /\ pc = "done"
    /\ error = ""
    /\ sv_df = <<>>
    /\ lookups = <<>>
    /\ downloads = <<>>
    /\ image_dir = FALSE
    /\ image_files = <<>>
    /\ streetview_parquet = NoParquet
    /\ pr_df = <<>>
    /\ classified = <<>>
    /\ predictions_parquet = NoParquet
    /\ line = <<>>
    /\ step_arg = Step
    /\ xy = <<>>
    /\ bearings = <<>>
    /\ d_pc = "returned"
    /\ gdf = <<>>
    /\ points_df = <<>>
    /\ s_pc = "done"

\* the notebook is run (again)
LcStart ==
    /\ sc_pc \in {"idle", "done", "failed"}
    /\ sc_run.n < MaxLocatorRuns
    /\ sc_run' = [n |-> sc_run.n + 1,
                  found |-> sc_input.target \in sc_files,
                  after_success |-> sc_run.after_success \/ sc_pc = "done",
                  requests |-> 0, extractions |-> 0]
    /\ sc_df' = <<>>
    /\ sc_pc' = "mkdir"
    /\ UNCHANGED <<sc_input, sc_files, schools_parquet>>
    /\ UNCHANGED <<densify_vars, sampler_vars, points_parquet, pipeline_vars,
                   artifact_vars, loader_vars>>

\* cell: create a data subdir if it doesn't exist
LcMkdir ==
    /\ sc_pc = "mkdir"
    /\ sc_files' = sc_files \cup {DataRootEntry}
    /\ sc_pc' = "download"
    /\ UNCHANGED <<sc_input, sc_df, sc_run, schools_parquet>>
    /\ UNCHANGED <<densify_vars, sampler_vars, points_parquet, pipeline_vars,
                   artifact_vars, loader_vars>>

\* cell: download file
LcDownload ==
    /\ sc_pc = "download"
    /\ IF TargetTested(sc_files)
       THEN sc_pc' = "unzip" /\ UNCHANGED <<sc_files, sc_run>>
       ELSE /\ sc_run' = [sc_run EXCEPT !.requests = @ + 1]
            /\ \E status \in {200, 404, 0} :
                IF status = 0 THEN LcFails /\ sc_files' = sc_files
                ELSE /\ sc_pc' = "unzip"
                     /\ sc_files' = IF status = 200
                                    THEN sc_files \cup {LinkBasename}
                                    ELSE sc_files
    /\ UNCHANGED <<sc_input, sc_df, schools_parquet>>
    /\ UNCHANGED <<densify_vars, sampler_vars, points_parquet, pipeline_vars,
                   artifact_vars, loader_vars>>

\* cell: unzip if necessary
LcUnzip ==
    /\ sc_pc = "unzip"
    /\ IF sc_input.unzip /\ ~TargetTested(sc_files)
       THEN IF LinkBasename \notin sc_files
            THEN LcFails /\ UNCHANGED <<sc_files, sc_run>>
            ELSE /\ sc_files' = sc_files \cup sc_input.archive
                               \cup {<<t[1], "">> : t \in sc_input.archive}
                 /\ sc_run' = [sc_run EXCEPT !.extractions = @ + 1]
                 /\ sc_pc' = "read"
       ELSE sc_pc' = "read" /\ UNCHANGED <<sc_files, sc_run>>
    /\ UNCHANGED <<sc_input, sc_df, schools_parquet>>
    /\ UNCHANGED <<densify_vars, sampler_vars, points_parquet, pipeline_vars,
                   artifact_vars, loader_vars>>

\* cell: read target file into dataframe
LcRead ==
    /\ sc_pc = "read"
    /\ IF sc_input.target \in sc_files
       THEN sc_df' = sc_input.raw /\ sc_pc' = "rename"
       ELSE LcFails /\ sc_df' = sc_df
    /\ UNCHANGED <<sc_input, sc_files, sc_run, schools_parquet>>
    /\ UNCHANGED <<densify_vars, sampler_vars, points_parquet, pipeline_vars,
                   artifact_vars, loader_vars>>

\* cell: rename the columns to standardize the pipeline
LcRename ==
    /\ sc_pc = "rename"
    /\ sc_df' = Rename(sc_df, Mapper(sc_input.lat_colname, sc_input.lon_colname))
    /\ sc_pc' = "filter"
    /\ UNCHANGED <<sc_input, sc_files, sc_run, schools_parquet>>
    /\ UNCHANGED <<densify_vars, sampler_vars, points_parquet, pipeline_vars,
                   artifact_vars, loader_vars>>

\* cell: df = df[df["CITY"] == "Chicago"].head(5); KeyError without the column
LcFilter ==
    /\ sc_pc = "filter"
    /\ IF \E i \in DOMAIN sc_df : sc_df[i] = "CITY"
       THEN sc_pc' = "export"
       ELSE LcFails
    /\ UNCHANGED <<sc_input, sc_files, sc_df, sc_run, schools_parquet>>
    /\ UNCHANGED <<densify_vars, sampler_vars, points_parquet, pipeline_vars,
                   artifact_vars, loader_vars>>

\* cell: export to parquet; two columns of one name make to_parquet raise
LcExport ==
    /\ sc_pc = "export"
    /\ IF HasDuplicates(sc_df)
       THEN LcFails /\ UNCHANGED <<sc_files, schools_parquet>>
       ELSE /\ schools_parquet' = [exists |-> TRUE, columns |-> sc_df]
            /\ sc_files' = sc_files \cup {<<"", RunName \o "_schools.parquet">>}
            /\ sc_pc' = "done"
    /\ UNCHANGED <<sc_input, sc_df, sc_run>>
    /\ UNCHANGED <<densify_vars, sampler_vars, points_parquet, pipeline_vars,
                   artifact_vars, loader_vars>>

LocatorNext ==
    \/ LcStart
    \/ LcMkdir
    \/ LcDownload
    \/ LcUnzip
    \/ LcRead
    \/ LcRename
    \/ LcFilter
    \/ LcExport

LocatorSpec == LocatorInit /\ [][LocatorNext]_vars

---------------------------------------------------------------------------
(* Signage Classifier notebook: the cells that choose and load the model.   *)
(* An entry of data/schools/resnet/models is named by its first character   *)
(* and the rest of its name.                                                *)

\* what the models directory can hold: model files, a hidden file, a folder
EntryNames ==
    {<<"m", "odel_ex-001_acc-0.500000.h5">>, <<"m", "odel_ex-008_acc-1.000000.h5">>,
     <<".", "gitkeep">>, <<"c", "heckpoints">>}

IsDir(entry) == entry = <<"c", "heckpoints">>

\* os.path.getmtime of every entry of a directory
ModelDirs == UNION {[S -> 1..MaxMtime] : S \in SUBSET EntryNames}

\* glob.glob("{}/data/schools/resnet/models/*".format(os.getcwd())): the
\* entries whose name does not begin with a dot
GlobAll(dir) == DOMAIN dir

Glob(dir) == {e \in DOMAIN dir : e[1] # "."}

\* max(list_of_files, key=os.path.getmtime): the first entry of the list with
\* the greatest time; the order of the list is that of the directory scan
Latest(list_of_files, dir) ==
    {f \in list_of_files : \A g \in list_of_files : dir[f] >= dir[g]}

LoaderInit ==
    /\ models_dir \in ModelDirs
    /\ latest_file = <<>>
    /\ loaded = <<>>
    /\ ld_pc = "latest"
    /\ LocatorIdle
    /\ ArtifactIdle
    /\ points_parquet = NoParquet
    /\ pc = "done"
    /\ error = ""
    /\ sv_df = <<>>
    /\ lookups = <<>>
    /\ downloads = <<>>
    /\ image_dir = FALSE
    /\ image_files = <<>>
    /\ streetview_parquet = NoParquet
    /\ pr_df = <<>>
    /\ classified = <<>>
    /\ predictions_parquet = NoParquet
    /\ line = <<>>
    /\ step_arg = Step
    /\ xy = <<>>
    /\ bearings = <<>>
    /\ d_pc = "returned"
    /\ gdf = <<>>
    /\ points_df = <<>>
    /\ s_pc = "done"

\* cell: get latest file from models created; max() of an empty list raises
LdLatest ==
    /\ ld_pc = "latest"
    /\ LET list_of_files == Glob(models_dir)
       IN  IF list_of_files = {}
           THEN ld_pc' = "failed" /\ latest_file' = latest_file
           ELSE /\ latest_file' \in Latest(list_of_files, models_dir)
                /\ ld_pc' = "load"
    /\ UNCHANGED <<models_dir, loaded>>
    /\ UNCHANGED <<densify_vars, sampler_vars, points_parquet, pipeline_vars,
                   artifact_vars, locator_vars>>

\* cell: custom model load; loadModel raises on a folder
LdLoad ==
    /\ ld_pc = "load"
    /\ IF IsDir(latest_file)
       THEN ld_pc' = "failed" /\ loaded' = loaded
       ELSE loaded' = latest_file /\ ld_pc' = "done"
    /\ UNCHANGED <<models_dir, latest_file>>
    /\ UNCHANGED <<densify_vars, sampler_vars, points_parquet, pipeline_vars,
                   artifact_vars, locator_vars>>

LoaderNext == LdLatest \/ LdLoad

LoaderSpec == LoaderInit /\ [][LoaderNext]_vars

---------------------------------------------------------------------------
(* Properties of densify_geometry (DensifySpec) *)

\* C1 as stated: densify_geometry returns exactly floor(L / s) sample points
C1_FloorCount ==
    d_pc = "returned" => Len(xy) = FloorDiv(LineLength(line), step_arg)

\* C1 (amended): densify_geometry returns ceil(L / s) sample points: the least
\* n with n * s >= L, one point for each distance 0, s, 2s, ... below L
C1_CeilCount ==
    d_pc = "returned" =>
        LET n == Len(xy)
            L == LineLength(line)
        IN  /\ n * step_arg >= L
            /\ n > 0 => (n - 1) * step_arg < L

C1_Witness ==
    /\ d_pc = "returned"
    /\ LineLength(line) % step_arg # 0
    /\ Len(xy) >= 2
    /\ Len(xy) = FloorDiv(LineLength(line), step_arg) + 1

---------------------------------------------------------------------------
(* Properties of gather_road_points (SamplerSpec) *)

Gathered == s_pc \in {"export", "done"}

\* the output rows that carry the name of road k of the road table
RowsOfRoad(k) == SelectSeq(points_df, LAMBDA r : r.road_name = gdf[k].name)

Retained(k) == Len(RowsOfRoad(k)) > 0

Position(r) == <<r.lon, r.lat>>

\* C2 as stated: the first point's bearing is computed from the first two
\* points with the argument order reversed relative to the second point's
C2_ReversedOrder ==
    Gathered =>
        \A k \in DOMAIN gdf : Retained(k) =>
            LET rows == RowsOfRoad(k)
                p1 == Position(rows[1])
                p2 == Position(rows[2])
            IN  \E a \in {<<p1, p2>>, <<p2, p1>>} :
                    /\ rows[2].bearing = get_bearing(a[1], a[2])
                    /\ rows[1].bearing = get_bearing(a[2], a[1])

\* C2 (amended): the bearings of the first and of the second sample point are
\* both get_bearing(second point, first point): same two points, same
\* argument order, hence equal
C2_SameOrder ==
    Gathered =>
        \A k \in DOMAIN gdf : Retained(k) =>
            LET rows == RowsOfRoad(k)
                p1 == Position(rows[1])
                p2 == Position(rows[2])
            IN  /\ rows[1].bearing = get_bearing(p2, p1)
                /\ rows[2].bearing = get_bearing(p2, p1)

C2_Witness ==
    /\ Gathered
    /\ \E k \in DOMAIN gdf :
        /\ Len(RowsOfRoad(k)) >= 3
        /\ Position(RowsOfRoad(k)[1]) # Position(RowsOfRoad(k)[2])
        /\ get_bearing(Position(RowsOfRoad(k)[1]), Position(RowsOfRoad(k)[2]))
             # get_bearing(Position(RowsOfRoad(k)[2]), Position(RowsOfRoad(k)[1]))

\* the forward azimuth from sample point p to sample point q, both <<lon, lat>>
TravelBearing(p, q) == get_bearing(<<p[2], p[1]>>, <<q[2], q[1]>>)

\* C3: every sample point but the first stores the bearing from the previous
\* sample point to it, the direction of travel along the path
C3_TravelDirection ==
    Gathered =>
        \A k \in DOMAIN gdf :
            LET rows == RowsOfRoad(k)
            IN  \A x \in 2..Len(rows) :
                    rows[x].bearing =
                        TravelBearing(Position(rows[x - 1]), Position(rows[x]))

Excluded(rrow) == rrow.geometry.isna \/ rrow.highway = "service"

\* C9: a road of the excluded highway type, or with null geometry, has no row
\* in the sampler output
C9_ExcludedAbsent ==
    Gathered =>
        \A k \in DOMAIN gdf : Excluded(gdf[k]) =>
            /\ \A i \in DOMAIN points_df : points_df[i].road_name # gdf[k].name
            /\ s_pc = "done" =>
                \A i \in DOMAIN points_parquet.rows :
                    points_parquet.rows[i].road_name # gdf[k].name

C9_Witness ==
    /\ s_pc = "done"
    /\ \E k \in DOMAIN gdf :
        /\ gdf[k].highway = "service"
        /\ ~gdf[k].geometry.isna
        /\ LineLength(gdf[k].geometry.coords) > 2 * Step
    /\ \E k \in DOMAIN gdf : gdf[k].geometry.isna

\* C10: a path whose densification yields fewer than 2 sample points has no
\* row in the sampler output, and gathering raises no error
C10_ShortDropped ==
    s_pc # "gather" =>
        /\ s_pc # "failed"
        /\ \A k \in DOMAIN gdf :
            (~gdf[k].geometry.isna
                /\ Len(densify_geometry(gdf[k].geometry.coords, Step)) < 2) =>
                    \A i \in DOMAIN points_df : points_df[i].road_name # gdf[k].name

C10_Witness ==
    /\ s_pc = "done"
    /\ \E k \in DOMAIN gdf :
        /\ ~Excluded(gdf[k])
        /\ LineLength(gdf[k].geometry.coords) = 0
    /\ \E k \in DOMAIN gdf :
        /\ ~Excluded(gdf[k])
        /\ Len(densify_geometry(gdf[k].geometry.coords, Step)) = 1

---------------------------------------------------------------------------
(* Properties of the Street Imagery Fetcher and the Signage Classifier (Spec) *)

\* the lookup cell of the current run has been executed
LookedUp == pc \notin {"sv_read", "sv_subset", "sv_lookup"}

\* the download cell of the current run has been executed
DownloadTried == LookedUp /\ pc \notin {"sv_mkdir", "sv_download"}

LookupRaised(k) == sv_df[k].meta.kind = "NA"

\* C4: a row whose metadata lookup raised is treated as having no result:
\* the stage goes on (no image request of the run raising) and the row is
\* exported with no image reference
C4_ExceptionSkipped ==
    (/\ DownloadTried
     /\ error # "ConnectionError"
     /\ \E k \in DOMAIN sv_df : LookupRaised(k)) =>
        /\ pc # "failed"
        /\ \A k \in DOMAIN sv_df : LookupRaised(k) => sv_df[k].image = NoImage
        /\ streetview_parquet.exists
        /\ pc # "sv_export" =>
            \A k \in DOMAIN sv_df : LookupRaised(k) =>
                streetview_parquet.rows[k].image = NoImage

\* C5: no failure of an external call aborts a stage
C5_NoStageAborts == pc # "failed"

\* C6: no image request is issued for a file that already exists, so a run
\* that finds every file present issues none
C6_NoRedownload ==
    [][pc = "sv_download" =>
        /\ \A i \in DOMAIN downloads' : downloads'[i] \notin DOMAIN image_files
        /\ (\A k \in DOMAIN sv_df : sv_df[k].meta.kind = "results" =>
                FilePath(DataDir(cwd, name), sv_df[k].meta) \in DOMAIN image_files)
            => downloads' = <<>>]_vars

C6_Witness ==
    /\ pc = "sv_export"
    /\ downloads = <<>>
    /\ Len(sv_df) >= 2
    /\ \A k \in DOMAIN sv_df : sv_df[k].meta.kind = "results"

InputRows == points_parquet.rows

\* C7 as stated: one lookup for each input row, and every input row in the
\* output table, whatever the number of input rows
C7_EveryRow ==
    /\ LookedUp =>
        lookups = [k \in DOMAIN InputRows |-> Request(InputRows[k])]
    /\ pc = "sv_done" =>
        /\ Len(streetview_parquet.rows) = Len(InputRows)
        /\ \A k \in DOMAIN InputRows : streetview_parquet.rows[k].index = k - 1

\* C7 (amended): one lookup for each of the first 100 input rows and none for
\* a later row; the output table, when written, holds exactly those rows
C7_FirstHundred ==
    LET n == IF Len(InputRows) <= SubsetLimit THEN Len(InputRows) ELSE SubsetLimit
    IN  /\ LookedUp => lookups = [k \in 1..n |-> Request(InputRows[k])]
        /\ pc = "sv_done" =>
            /\ Len(streetview_parquet.rows) = n
            /\ \A k \in 1..n :
                /\ streetview_parquet.rows[k].index = k - 1
                /\ Request(streetview_parquet.rows[k]) = Request(InputRows[k])

C7_Witness ==
    /\ pc = "sv_done"
    /\ Len(InputRows) > SubsetLimit
    /\ Len(lookups) = SubsetLimit

\* C8: a row whose imagery lookup failed is not in the prediction export
C8_FailedLookupNotExported ==
    pc = "done" =>
        \A i \in DOMAIN predictions_parquet.rows :
            sv_df[predictions_parquet.rows[i].index + 1].meta.kind = "results"

C8_Witness ==
    /\ pc = "done"
    /\ Len(predictions_parquet.rows) > 0
    /\ \E k \in DOMAIN sv_df : sv_df[k].meta.kind = "None"


---------------------------------------------------------------------------
(* Spacing of the points densify_geometry returns (DensifySpec) *)

\* squared Euclidean distance of two points
Dist2(p, q) == (q[1] - p[1]) * (q[1] - p[1]) + (q[2] - p[2]) * (q[2] - p[2])

\* C11: each returned point but the first lies at arc length exactly step
\* after the one before it, and so within distance step of it
C11_Spacing ==
    d_pc = "returned" =>
        \A i \in 2..Len(xy) :
            /\ xy[i - 1] = Interpolate(line, (i - 2) * step_arg)
            /\ xy[i] = Interpolate(line, (i - 2) * step_arg + step_arg)
            /\ (i - 1) * step_arg < LineLength(line)
            /\ Dist2(xy[i - 1], xy[i]) <= step_arg * step_arg

\* two consecutive points around a corner, closer than step to each other
C11_Witness ==
    /\ d_pc = "returned"
    /\ Len(xy) >= 3
    /\ \E i \in 2..Len(xy) : Dist2(xy[i - 1], xy[i]) < step_arg * step_arg
    /\ \E i \in 2..Len(xy) : Dist2(xy[i - 1], xy[i]) = step_arg * step_arg


---------------------------------------------------------------------------
(* Range of the stored bearings (SamplerSpec) *)

\* C13: every bearing of the sampler's output lies between 0 (included) and 360
C13_BearingRange ==
    \A i \in DOMAIN points_df :
        points_df[i].bearing >= 0 /\ points_df[i].bearing < 360

\* a stored bearing in the half of the range that atan2 gives as negative
C13_Witness ==
    /\ s_pc = "done"
    /\ \E i \in DOMAIN points_parquet.rows : points_parquet.rows[i].bearing > 180
    /\ \E i \in DOMAIN points_parquet.rows : points_parquet.rows[i].bearing = 0


---------------------------------------------------------------------------
(* The image key (Spec) *)

HasResults(k) == sv_df[k].meta.kind = "results"

\* the same heading, and latitudes and longitudes that agree once rounded down
\* to ten units
SameRoundedPoint(r1, r2) ==
    /\ r1.bearing = r2.bearing
    /\ r1.lat \div 10 = r2.lat \div 10
    /\ r1.lon \div 10 = r2.lon \div 10

SamePoint(r1, r2) ==
    r1.bearing = r2.bearing /\ r1.lat = r2.lat /\ r1.lon = r2.lon

\* C14 as stated: the key is built of the rounded position and the heading, so
\* two points of one heading that differ below the precision share a file
C14_RoundedKey ==
    pc = "sv_export" =>
        \A k, j \in DOMAIN sv_df :
            (HasResults(k) /\ HasResults(j) /\ SameRoundedPoint(sv_df[k], sv_df[j]))
                => sv_df[k].image = sv_df[j].image

\* C14 (amended): the key is built of the latitude, the longitude and the
\* heading as formatted in full, so two points share a file only if all three
\* are equal, and the file of each point is on disk after the download cell
C14_ExactKey ==
    pc = "sv_export" =>
        \A k, j \in DOMAIN sv_df :
            (HasResults(k) /\ HasResults(j)) =>
                /\ sv_df[k].image = sv_df[j].image <=> SamePoint(sv_df[k], sv_df[j])
                /\ sv_df[k].image \in DOMAIN image_files

\* two points of one heading a sampling step apart, each downloaded
C14_Witness ==
    /\ pc = "sv_export"
    /\ \E k, j \in DOMAIN sv_df :
        /\ HasResults(k) /\ HasResults(j)
        /\ SameRoundedPoint(sv_df[k], sv_df[j])
        /\ sv_df[k].image # sv_df[j].image
        /\ \E a, b \in DOMAIN downloads :
            downloads[a] = sv_df[k].image /\ downloads[b] = sv_df[j].image


---------------------------------------------------------------------------
(* Properties of the files read and written (ArtifactSpec) *)

IsImage(path) == Len(path) = 2

IsDirectory(path) ==
    Len(path) = 3 /\ path[3][2] \in {"", "_schoolroads_street_images"}

\* a table of a run: <cwd>/data/<name>_<...>.parquet
IsTable(path) ==
    Len(path) = 3 /\ path[3][1] \in {Names[i] : i \in DOMAIN Names}
                  /\ ~IsDirectory(path)

Stages == {"schools", "points", "streetview", "predict"}

Writes == {e \in io : e.op = "write"}

Reads == {e \in io : e.op = "read"}

ImageWrites == {e \in Writes : e.nb = "streetview" /\ IsImage(e.path)}

\* C15 as stated: the image path is a function of the run name, the latitude,
\* the longitude and the heading only, and its directory of the run name only
C15_PathOfNameAndPoint ==
    /\ \A e1, e2 \in ImageWrites :
        (e1.name = e2.name /\ e1.path[2] = e2.path[2]) => e1.path = e2.path
    /\ \A e1, e2 \in ImageWrites :
        e1.name = e2.name => e1.path[1] = e2.path[1]

\* C15 (amended): the image path is <cwd>/data/<name>_schoolroads_street_images/
\* <lat>_<lon>_<heading>.jpg, a function of the working directory, the run
\* name, the latitude, the longitude and the heading
C15_PathOfCwdNameAndPoint ==
    \A e \in ImageWrites :
        /\ e.path[1] = <<e.cwd, "data", <<e.name, "_schoolroads_street_images">>>>
        /\ \E r \in PointRows :
            e.path[2] = <<FormatFloat(r.lat), "_", FormatFloat(r.lon), "_",
                          FormatFloat(r.bearing), ".jpg">>
        /\ \A e2 \in ImageWrites :
            (e2.cwd = e.cwd /\ e2.name = e.name /\ e2.path[2] = e.path[2])
                => e2.path = e.path

\* the image of one point written in two working directories under one name
C15_Witness ==
    \E e1, e2 \in ImageWrites :
        e1.name = e2.name /\ e1.path[2] = e2.path[2] /\ e1.cwd # e2.cwd

Preceding == [points |-> "schools", streetview |-> "points", predict |-> "streetview"]

TableReads == {e \in Reads : e.nb \in DOMAIN Preceding /\ IsTable(e.path)}

WrittenBy(nb, e) ==
    \E w \in Writes : w.nb = nb /\ w.path = e.path /\ w.name = e.name

\* C17 as stated: every stage reads the file the stage before it wrote for the
\* same run name
C17_ReadsPrecedingOutput ==
    \A e \in TableReads : WrittenBy(Preceding[e.nb], e)

\* C17 (amended): the fetcher reads the file the sampler wrote and the
\* classifier the file the fetcher wrote, for the same working directory and
\* run name; the sampler reads <name>_school_roads.parquet, which the School
\* Locator does not write
C17_ReadsChain ==
    \A e \in TableReads :
        /\ e.nb \in {"streetview", "predict"} => WrittenBy(Preceding[e.nb], e)
        /\ e.nb = "points" =>
            /\ e.path = <<e.cwd, "data", <<e.name, "_school_roads.parquet">>>>
            /\ \A w \in Writes : w.path = e.path => w.nb \notin Stages
        /\ \A e2 \in TableReads :
            (e2.nb = e.nb /\ e2.cwd = e.cwd /\ e2.name = e.name) => e2.path = e.path

C17_Witness ==
    /\ \E e \in TableReads : e.nb = "points"
    /\ \E e \in TableReads : e.nb = "streetview"
    /\ \E e \in TableReads : e.nb = "predict"
    /\ \E w \in Writes : w.nb = "schools" /\ IsTable(w.path)

FileWrites == {w \in Writes : w.nb \in Stages /\ ~IsDirectory(w.path)}

\* the output table of a stage
OwnOutput(w) ==
    /\ IsTable(w.path)
    /\ w.path[1] = w.cwd
    /\ w.path[3] = <<w.name,
                     [schools |-> "_schools.parquet",
                      points |-> "_school_road_points.parquet",
                      streetview |-> "_school_road_points_streetview.parquet",
                      predict |-> "_school_road_points_streetview_predictions.parquet"][w.nb]>>

OwnImage(w) ==
    /\ w.nb = "streetview"
    /\ IsImage(w.path)
    /\ w.path[1] = <<w.cwd, "data", <<w.name, "_schoolroads_street_images">>>>

\* no read of the file by the stage that wrote it, no write by another stage
NotWrittenBack(w) ==
    \A e \in io : e.path = w.path =>
        /\ e.op = "read" => e.nb # w.nb
        /\ e.op = "write" => e.nb = w.nb

\* C18 as stated: a stage writes its output table only (the fetcher its images
\* too), never a file it reads or a file of another stage
C18_OwnOutputOnly ==
    \A w \in FileWrites : (OwnOutput(w) \/ OwnImage(w)) /\ NotWrittenBack(w)

\* the archive the School Locator downloads and the files extracted from it
SchoolsSource(w) ==
    /\ w.nb = "schools"
    /\ ~IsTable(w.path)
    /\ w.path[1] = w.cwd

\* C18 (amended): the School Locator also writes the archive it downloads and
\* the files it extracts, which it reads; apart from those a stage writes its
\* output table only (the fetcher its images too), never a file it reads or a
\* file of another stage
C18_NoWriteBack ==
    \A w \in FileWrites :
        \/ SchoolsSource(w)
        \/ (OwnOutput(w) \/ OwnImage(w)) /\ NotWrittenBack(w)

C18_Witness ==
    /\ \E w \in FileWrites : w.nb = "predict"
    /\ \E w \in FileWrites : OwnImage(w)
    /\ \E w \in FileWrites : SchoolsSource(w) /\ \E e \in Reads : e.path = w.path


---------------------------------------------------------------------------
(* Rows without a successful lookup (Spec) *)

\* the lookup of row k returned a status other than OK
LookupNotOk(k) == sv_df[k].meta.kind = "None"

\* the file the image of row k would be stored in
ImagePathOf(k) ==
    FilePath(DataDir(cwd, name),
             MetaResults(sv_df[k].lat, sv_df[k].lon, sv_df[k].bearing, "OK"))

\* the export cell of the fetcher has been executed in the current run
Exported ==
    \/ pc \in {"sv_done", "pr_read", "pr_predict", "pr_export", "done"}
    \/ pc = "failed" /\ error \in {"ValueError", "KeyError"}

\* C16: for a point whose metadata lookup returned a status other than OK no
\* image request is issued, and its row is exported with no image reference
C16_NoImageForFailedLookup ==
    LookedUp =>
        \A k \in DOMAIN sv_df : LookupNotOk(k) =>
            /\ \A i \in DOMAIN downloads : downloads[i] # ImagePathOf(k)
            /\ DownloadTried /\ pc # "failed" => sv_df[k].image = NoImage
            /\ Exported =>
                /\ k \in DOMAIN streetview_parquet.rows
                /\ streetview_parquet.rows[k].index = sv_df[k].index
                /\ streetview_parquet.rows[k].image = NoImage

\* a table exported with a row of a failed lookup beside a row whose image
\* was requested
C16_Witness ==
    /\ pc = "sv_done"
    /\ downloads # <<>>
    /\ \E k \in DOMAIN sv_df :
        LookupNotOk(k) /\ streetview_parquet.rows[k].image = NoImage


---------------------------------------------------------------------------
(* Calls of the classifier (Spec) *)

\* the predict cell of the current run has been executed
Predicted ==
    \/ pc \in {"pr_export", "done"}
    \/ pc = "failed" /\ error \in {"ValueError", "KeyError"}

\* the image references of the rows of the classifier's table that have one,
\* in row order
ImageRows == SelectSeq(pr_df, LAMBDA r : r.image # NoImage)

ImagesOfRows == [i \in DOMAIN ImageRows |-> ImageRows[i].image]

---------------------------------------------------------------------------
(* Order of the exported rows (Spec) *)

\* the rows of a table are rows of the input table, in the order of the input
InInputOrder(rows) ==
    /\ \A i \in DOMAIN rows :
        /\ rows[i].index + 1 \in DOMAIN InputRows
        /\ Request(rows[i]) = Request(InputRows[rows[i].index + 1])
        /\ rows[i].road_name = InputRows[rows[i].index + 1].road_name
    /\ \A i, j \in DOMAIN rows : i < j => rows[i].index < rows[j].index

\* C20: the rows the fetcher and the classifier export are in the relative
\* order of the input rows they come from; rows are dropped, never reordered
C20_OrderKept ==
    /\ InInputOrder(streetview_parquet.rows)
    /\ InInputOrder(predictions_parquet.rows)
    /\ \A i \in DOMAIN predictions_parquet.rows :
        \E k \in DOMAIN streetview_parquet.rows :
            streetview_parquet.rows[k].index = predictions_parquet.rows[i].index

\* both stages have exported two rows of different points
C20_Witness ==
    /\ pc = "done"
    /\ Len(predictions_parquet.rows) >= 2
    /\ Request(predictions_parquet.rows[1]) # Request(predictions_parquet.rows[2])
    /\ Len(streetview_parquet.rows) >= 2


---------------------------------------------------------------------------
(* Order of the rows of the sampler's table (SamplerSpec) *)

\* the row of the road table an output row comes from (names tell them apart)
RoadOf(r) == CHOOSE k \in DOMAIN gdf : gdf[k].name = r.road_name

\* C21: the rows of one road are contiguous and in the order of increasing
\* distance along its path, and the roads are in the order of the road table
C21_RowOrder ==
    Gathered =>
        /\ \A i, j \in DOMAIN points_df :
            i < j => RoadOf(points_df[i]) <= RoadOf(points_df[j])
        /\ \A k \in DOMAIN gdf : \A i \in DOMAIN RowsOfRoad(k) :
            Position(RowsOfRoad(k)[i]) =
                Interpolate(gdf[k].geometry.coords, (i - 1) * Step)

\* two retained roads, the second of them with three points or more
C21_Witness ==
    /\ Gathered
    /\ Len(gdf) = 2
    /\ Retained(1)
    /\ Len(RowsOfRoad(2)) >= 3


---------------------------------------------------------------------------
(* Properties of the School Locator (LocatorSpec) *)

HasColumn(columns, c) == \E i \in DOMAIN columns : columns[i] = c

InRaw(c) == \E i \in DOMAIN sc_input.raw : sc_input.raw[i] = c

\* C23 as stated: whatever the raw table and the two parameters, the exported
\* table has a column "lat" and a column "lon"
C23_LatLonAlways ==
    schools_parquet.exists =>
        /\ HasColumn(schools_parquet.columns, "lat")
        /\ HasColumn(schools_parquet.columns, "lon")

\* C23 (amended): when lat_colname and lon_colname name two different columns
\* of the raw table, the exported table has a column "lat" and a column "lon"
C23_LatLonOfNamedColumns ==
    (/\ schools_parquet.exists
     /\ sc_input.lat_colname # sc_input.lon_colname
     /\ InRaw(sc_input.lat_colname)
     /\ InRaw(sc_input.lon_colname)) =>
        /\ HasColumn(schools_parquet.columns, "lat")
        /\ HasColumn(schools_parquet.columns, "lon")
        /\ ~HasColumn(schools_parquet.columns, sc_input.lat_colname)
        /\ ~HasColumn(schools_parquet.columns, sc_input.lon_colname)
        /\ Len(schools_parquet.columns) = Len(sc_input.raw)

\* a table exported with both columns renamed
C23_Witness ==
    /\ schools_parquet.exists
    /\ sc_pc = "done"
    /\ sc_input.lat_colname = "LAT"
    /\ sc_input.lon_colname = "LON"
    /\ schools_parquet.columns = <<"NCESSCH", "lat", "lon", "CITY">>

\* C24: a run that finds the target file in the data directory, or that
\* follows a run that succeeded, requests no download and extracts nothing
C24_DownloadedOnce ==
    (sc_run.n > 0 /\ (sc_run.found \/ sc_run.after_success)) =>
        sc_run.requests = 0 /\ sc_run.extractions = 0


---------------------------------------------------------------------------
(* The model file loaded (LoaderSpec) *)

\* C22 as stated: the model loaded is a file of the models directory at least
\* as recent as every other file of the directory
C22_LatestOfAllFiles ==
    ld_pc = "done" =>
        /\ loaded \in DOMAIN models_dir
        /\ ~IsDir(loaded)
        /\ \A f \in DOMAIN models_dir :
            ~IsDir(f) => models_dir[loaded] >= models_dir[f]

\* C22 (amended): the model loaded is a file of the models directory whose
\* name does not begin with a dot, at least as recent as every other entry
\* of the directory whose name does not begin with a dot
C22_LatestOfListedEntries ==
    ld_pc = "done" =>
        /\ loaded \in DOMAIN models_dir
        /\ ~IsDir(loaded)
        /\ loaded[1] # "."
        /\ \A f \in DOMAIN models_dir :
            f[1] # "." => models_dir[loaded] >= models_dir[f]

\* a model loaded from a directory that holds an older model and a more
\* recent hidden file
C22_Witness ==
    /\ ld_pc = "done"
    /\ \E f \in DOMAIN models_dir :
        f # loaded /\ f[1] = "m" /\ models_dir[f] < models_dir[loaded]
    /\ \E f \in DOMAIN models_dir :
        f[1] = "." /\ models_dir[f] > models_dir[loaded]


---------------------------------------------------------------------------
(* What the classifier changes in a row (Spec) *)

\* the columns the classifier reads from its input table
InputColumns(r) ==
    <<r.index, r.road_name, r.lon, r.lat, r.road_length, r.bearing, r.image>>

\* C25: the classifier sets no label and no confidence on a row without an
\* image, adds only the label and the confidence to a row with one, and
\* leaves road_name, lon, lat, road_length, bearing and the image reference
\* of every row as they were
C25_OnlyPredictionsAdded ==
    /\ pc \in {"pr_export", "done"} =>
        /\ Len(pr_df) = Len(streetview_parquet.rows)
        /\ \A k \in DOMAIN pr_df :
            /\ InputColumns(pr_df[k]) = InputColumns(streetview_parquet.rows[k])
            /\ DOMAIN pr_df[k] = DOMAIN streetview_parquet.rows[k]
                    \cup {"schoolsign_prediction", "schoolsign_prediction_prob"}
            /\ IF pr_df[k].image = NoImage
               THEN /\ pr_df[k].schoolsign_prediction = NaNLabel
                    /\ pr_df[k].schoolsign_prediction_prob = NaNProb
               ELSE /\ pr_df[k].schoolsign_prediction \in Labels
                    /\ pr_df[k].schoolsign_prediction_prob =
                           Probability(pr_df[k].schoolsign_prediction)
    /\ pc = "done" =>
        \A i \in DOMAIN predictions_parquet.rows :
            \E k \in DOMAIN streetview_parquet.rows :
                InputColumns(predictions_parquet.rows[i]) =
                    InputColumns(streetview_parquet.rows[k])

\* a classified table with a row without an image and a row with one
C25_Witness ==
    /\ pc = "pr_export"
    /\ \E k \in DOMAIN pr_df : pr_df[k].image = NoImage
    /\ \E k \in DOMAIN pr_df : pr_df[k].image # NoImage


---------------------------------------------------------------------------
(* Order of the requests of the fetcher (Spec) *)

\* C26: in a run of the fetcher every metadata lookup is issued before the
\* first image request: the image requests are issued by the download cell
\* only, when every row has been looked up, and no lookup is issued with or
\* after an image request of the run
C26_LookupsBeforeDownloads ==
    [][/\ (downloads' # downloads /\ downloads' # <<>>) =>
            /\ pc = "sv_download"
            /\ downloads = <<>>
            /\ lookups' = lookups
            /\ Len(lookups) = Len(sv_df)
       /\ (lookups' # lookups /\ lookups' # <<>>) =>
            /\ pc = "sv_lookup"
            /\ downloads = <<>>
            /\ downloads' = <<>>]_vars

\* a run in which several rows were looked up and an image was requested
C26_Witness ==
    /\ pc = "sv_export"
    /\ Len(lookups) >= 2
    /\ downloads # <<>>
    /\ \A k \in DOMAIN sv_df : sv_df[k].meta.kind = "results"


---------------------------------------------------------------------------
(* Rows with a missing value (Spec) *)

NothingMissing(r) ==
    /\ r.road_name # NoName
    /\ r.image # NoImage
    /\ r.schoolsign_prediction # NaNLabel
    /\ r.schoolsign_prediction_prob # NaNProb

\* C27: a row is in the prediction export only if none of its columns has a
\* missing value; a row with an image, a label and a confidence but without
\* a road name is dropped too
C27_NoMissingValueExported ==
    pc = "done" =>
        /\ \A i \in DOMAIN predictions_parquet.rows :
            NothingMissing(predictions_parquet.rows[i])
        /\ \A k \in DOMAIN pr_df :
            pr_df[k].road_name = NoName =>
                \A i \in DOMAIN predictions_parquet.rows :
                    predictions_parquet.rows[i].index # pr_df[k].index

\* an export from a table with a classified row of a road without a name
C27_Witness ==
    /\ pc = "done"
    /\ predictions_parquet.rows # <<>>
    /\ \E k \in DOMAIN pr_df :
        /\ pr_df[k].road_name = NoName
        /\ pr_df[k].image # NoImage
        /\ pr_df[k].schoolsign_prediction \in Labels


---------------------------------------------------------------------------
(* The body of an image response (Spec) *)

\* C28: the download cell writes the body of every response, whatever it is,
\* and gives the path as the row's image; a file that exists is never
\* written again
C28_BodyWrittenAndKept ==
    [][/\ \A p \in DOMAIN image_files :
            p \in DOMAIN image_files' /\ image_files'[p] = image_files[p]
       /\ (pc = "sv_download" /\ pc' = "sv_export") =>
            /\ \A i \in DOMAIN downloads' :
                /\ downloads'[i] \in DOMAIN image_files'
                /\ image_files'[downloads'[i]] \in Bodies
            /\ \A k \in DOMAIN sv_df' :
                sv_df'[k].meta.kind = "results" =>
                    /\ sv_df'[k].image = FilePath(DataDir(cwd, name), sv_df'[k].meta)
                    /\ sv_df'[k].image \in DOMAIN image_files']_vars

\* a later run that gives a row the file an error body was written to
C28_Witness ==
    /\ pc = "sv_export"
    /\ downloads = <<>>
    /\ \E k \in DOMAIN sv_df :
        /\ sv_df[k].image # NoImage
        /\ image_files[sv_df[k].image] = "error"


---------------------------------------------------------------------------
(* The first and the last point densify_geometry returns (DensifySpec) *)

\* a path that passes through no position twice
SimplePath(g) ==
    \A d1, d2 \in 0..LineLength(g) :
        d1 # d2 => Interpolate(g, d1) # Interpolate(g, d2)

---------------------------------------------------------------------------
(* A table without images (Spec) *)

NoRowHasImage == \A k \in DOMAIN pr_df : pr_df[k].image = NoImage

\* C30: when no row of the classifier's table has an image, the predict cell
\* stops on the missing prediction columns and the export cell is not
\* reached: the prediction file is written only by the export cell of a run
\* whose table has an image
C30_NoExportWithoutImages ==
    [][/\ (pc = "pr_predict" /\ NoRowHasImage) =>
            /\ pc' = "failed"
            /\ error' = "KeyError"
            /\ predictions_parquet' = predictions_parquet
       /\ predictions_parquet' # predictions_parquet =>
            /\ pc = "pr_export"
            /\ ~NoRowHasImage]_vars

\* a run stopped on a table of two rows without an image
C30_Witness ==
    /\ pc = "failed"
    /\ error = "KeyError"
    /\ Len(pr_df) >= 2
    /\ NoRowHasImage
    /\ ~predictions_parquet.exists

============================================================================
